---------------------------- MODULE Spec2Model ----------------------------
(***************************************************************************)
(* A model of the notion_rag retrieval engine: the paragraph chunker       *)
(* (chunker.py), the SQLite store with its lexical and vector indexes      *)
(* (database.py), the batch sync (sync.py) and the posting watcher         *)
(* (watcher.py).                                                           *)
(*                                                                         *)
(* Texts are sequences of one-character strings.  The chunker's size       *)
(* parameters are the fields of ChunkConfig; the model instantiates the    *)
(* chunker with a small configuration that keeps the relations of the      *)
(* defaults (short_content_threshold = max_chunk_size, and overlap and     *)
(* min_chunk_size below max_chunk_size).                                   *)
(***************************************************************************)
EXTENDS Integers, Sequences, FiniteSets, TLC

VARIABLES
    c_text,     \* chunker run: the text handed to chunk()
    c_out,      \* chunker run: the list chunk() returned
    c_pc        \* chunker run: "input" before the call, "done" after it

chunkVars == <<c_text, c_out, c_pc>>

VARIABLES
    conn,           \* VectorDatabase.conn is not None
    vec_available,  \* the deployment can load sqlite-vec (fixed for a run)
    vec_enabled,    \* VectorDatabase._vec_enabled
    posts,          \* table posts: id -> row, or NoRow
    chunk_rows,     \* table chunks: a set of rows
    chunks_fts,     \* the FTS5 index over chunks: a set of (rowid, content)
    embeddings,     \* table embeddings: a set of (chunk_id, embedding)
    seq,            \* sqlite_sequence of chunks: the largest id ever assigned
    last            \* the last store call: its name, arguments and outcome

dbVars == <<posts, chunk_rows, chunks_fts, embeddings, seq>>
storeVars == <<conn, vec_available, vec_enabled, dbVars, last>>

VARIABLES
    notion,     \* the Notion database: page id -> the page's properties
    sync,       \* the NotionSync run in progress: its position and locals
    watch,      \* the NotionWatcher poll in progress: its position and locals
    published   \* Mastodon: page id -> how many statuses were created for it

syncVars == <<notion, sync, watch, published>>
envVars == <<chunkVars, syncVars>>

vars == <<chunkVars, storeVars, syncVars>>

-----------------------------------------------------------------------------
(* Bounds and configuration *)

MaxTextLen == 8

max_chunk_size == 5
min_chunk_size == 4
overlap == 2
short_content_threshold == 5

NL == "\n"
SP == " "
WS == {SP, NL}
Punct == {".", "!", "?"}
Alphabet == {"a", ".", SP, NL}

\* every text of at most MaxTextLen characters
ShortTexts == UNION {[1..n -> Alphabet] : n \in 0..MaxTextLen}

\* longer texts: two or three paragraphs taken from a pool (a word, words with
\* a space, sentences, an unpunctuated oversized paragraph, an oversized
\* paragraph of sentences) and joined by blank lines
ParaPool ==
    { <<"a">>,
      <<".">>,
      <<"a", "a", SP, "a">>,
      <<".", "a", SP, "a">>,
      <<"a", ".", SP, ".">>,
      <<"a", "a", "a", "a", "a", "a", "a">>,
      <<"a", ".", SP, "a", "a", ".", NL, ".", "a", SP, "a", ".", SP, ".">> }
SepPool == { <<NL, NL>>, <<SP, NL, SP, NL, NL>> }
LongTexts ==
    LET two == {p \o s \o q : p \in ParaPool, s \in SepPool, q \in ParaPool}
    IN  two \cup {t \o s \o q : t \in two, s \in SepPool, q \in ParaPool}

Texts == ShortTexts \cup LongTexts

-----------------------------------------------------------------------------
(* Python string primitives *)

SetMin(S) == CHOOSE x \in S : \A y \in S : x <= y
SetMax(S) == CHOOSE x \in S : \A y \in S : x >= y

RECURSIVE LStrip(_)
LStrip(s) ==
    IF s = <<>> THEN s
    ELSE IF Head(s) \in WS THEN LStrip(Tail(s)) ELSE s

RECURSIVE RStrip(_)
RStrip(s) ==
    IF s = <<>> THEN s
    ELSE IF s[Len(s)] \in WS THEN RStrip(SubSeq(s, 1, Len(s) - 1)) ELSE s

\* str.strip()
Strip(s) == RStrip(LStrip(s))

\* str.find(ch, start): 0-based index of the first ch at or after start, or -1
Find(s, ch, start) ==
    LET hits == {i \in start..(Len(s) - 1) : s[i + 1] = ch}
    IN  IF hits = {} THEN -1 ELSE SetMin(hits)

\* s[k:] for 0 <= k
SliceFrom(s, k) == SubSeq(s, k + 1, Len(s))

\* s[-n:] for 0 < n <= len(s)
SliceLast(s, n) == SubSeq(s, Len(s) - n + 1, Len(s))

\* last index of the maximal whitespace run that starts at i (i - 1 if s[i] is
\* not whitespace or i is past the end)
WsRunEnd(s, i) ==
    LET stops == {j \in i..Len(s) : s[j] \notin WS}
    IN  IF stops = {} THEN Len(s) ELSE SetMin(stops) - 1

\* [x for x in (p.strip() for p in pieces) if x]
StripNonEmpty(pieces) ==
    LET stripped == [k \in 1..Len(pieces) |-> Strip(pieces[k])]
    IN  SelectSeq(stripped, LAMBDA p : p # <<>>)

-----------------------------------------------------------------------------
(* SemanticChunker *)

\* re "\n\s*\n+" tried at index i: the index of the last character of the
\* greedy match, 0 if it does not match there
ParaSepEnd(s, i) ==
    IF s[i] # NL THEN 0
    ELSE LET e == WsRunEnd(s, i + 1)
             nls == {j \in (i + 1)..e : s[j] = NL}
         IN  IF nls = {} THEN 0 ELSE SetMax(nls)

RECURSIVE ReSplitParagraphs(_)
ReSplitParagraphs(s) ==
    LET starts == {i \in 1..Len(s) : ParaSepEnd(s, i) > 0}
    IN  IF starts = {} THEN <<s>>
        ELSE LET i == SetMin(starts)
             IN  <<SubSeq(s, 1, i - 1)>>
                     \o ReSplitParagraphs(SliceFrom(s, ParaSepEnd(s, i)))

_split_paragraphs(text) == StripNonEmpty(ReSplitParagraphs(text))

\* re "(?<=[.!?])\s+" tried at index i: the index of the last character of the
\* greedy match, 0 if it does not match there
SentSepEnd(s, i) ==
    IF i > 1 /\ s[i] \in WS /\ s[i - 1] \in Punct THEN WsRunEnd(s, i) ELSE 0

RECURSIVE ReSplitSentences(_)
ReSplitSentences(s) ==
    LET starts == {i \in 1..Len(s) : SentSepEnd(s, i) > 0}
    IN  IF starts = {} THEN <<s>>
        ELSE LET i == SetMin(starts)
             IN  <<SubSeq(s, 1, i - 1)>>
                     \o ReSplitSentences(SliceFrom(s, SentSepEnd(s, i)))

_split_sentences(text) == StripNonEmpty(ReSplitSentences(text))

_get_overlap(text) ==
    IF Len(text) <= overlap THEN text
    ELSE LET overlap_start == Len(text) - overlap
             space_idx == Find(text, SP, overlap_start)
         IN  IF space_idx # -1 THEN SliceFrom(text, space_idx + 1)
             ELSE SliceLast(text, overlap)

\* mutant of AppendIfAny: the running chunk is discarded instead of saved
AppendIfAny_dropped(chunks, current) == chunks

\* chunks.append(current.strip()) guarded by "if current"
AppendIfAny(chunks, current) ==
    IF current # <<>> THEN Append(chunks, Strip(current)) ELSE chunks

\* the sentence loop of _merge_and_split (lines 83-89)
RECURSIVE PackSentences(_, _, _)
PackSentences(sentences, chunks, sentence_chunk) ==
    IF sentences = <<>>
    THEN [chunks |-> chunks, sentence_chunk |-> sentence_chunk]
    ELSE LET sentence == Head(sentences)
         IN  IF Len(sentence_chunk) + Len(sentence) <= max_chunk_size
             THEN PackSentences(Tail(sentences), chunks,
                      sentence_chunk
                          \o (IF sentence_chunk # <<>> THEN <<SP>> ELSE <<>>)
                          \o sentence)
             ELSE PackSentences(Tail(sentences),
                      AppendIfAny(chunks, sentence_chunk), sentence)

\* one iteration of the paragraph loop of _merge_and_split (lines 71-109)
MergeStep(st, para) ==
    IF Len(para) > max_chunk_size
    THEN LET packed == PackSentences(_split_sentences(para),
                           AppendIfAny(st.chunks, st.current_chunk), <<>>)
         IN  [chunks |-> packed.chunks,
              current_chunk |-> IF packed.sentence_chunk # <<>>
                                THEN packed.sentence_chunk ELSE <<>>]
    ELSE IF Len(st.current_chunk) + Len(para) + 2 > max_chunk_size
    THEN IF st.current_chunk # <<>>
         THEN LET overlap_text == _get_overlap(st.current_chunk)
              IN  [chunks |-> Append(st.chunks, Strip(st.current_chunk)),
                   current_chunk |-> IF overlap_text # <<>>
                                     THEN overlap_text \o <<SP>> \o para
                                     ELSE para]
         ELSE [chunks |-> st.chunks, current_chunk |-> para]
    ELSE [chunks |-> st.chunks,
          current_chunk |-> IF st.current_chunk # <<>>
                            THEN st.current_chunk \o <<NL, NL>> \o para
                            ELSE para]

\* the paragraph loop: chunks closed so far and the running chunk
RECURSIVE MergeLoop(_, _)
MergeLoop(st, paragraphs) ==
    IF paragraphs = <<>> THEN st
    ELSE MergeLoop(MergeStep(st, Head(paragraphs)), Tail(paragraphs))

\* "Don't forget the last chunk" (lines 112-113)
EmitLast(st) ==
    IF st.current_chunk # <<>> /\ Len(Strip(st.current_chunk)) >= min_chunk_size
    THEN Append(st.chunks, Strip(st.current_chunk))
    ELSE st.chunks

_merge_and_split(paragraphs) ==
    EmitLast(MergeLoop([chunks |-> <<>>, current_chunk |-> <<>>], paragraphs))

\* mutant of chunk: the threshold test is strict, so a text exactly at the
\* threshold is sent through the paragraph splitter
chunk_strict_threshold(text) ==
    IF text = <<>> \/ Strip(text) = <<>> THEN <<>>
    ELSE LET t == Strip(text)
         IN  IF Len(t) < short_content_threshold THEN <<t>>
             ELSE _merge_and_split(_split_paragraphs(t))

chunk(text) ==
    IF text = <<>> \/ Strip(text) = <<>> THEN <<>>
    ELSE LET t == Strip(text)
         IN  IF Len(t) <= short_content_threshold THEN <<t>>
             ELSE _merge_and_split(_split_paragraphs(t))

-----------------------------------------------------------------------------
(* A run of the chunker on one input text *)

-----------------------------------------------------------------------------
(* Values of the store: documents (models.Post) and rows of table posts *)

DocIds == {"d1", "d2"}
None == "None"
Times == {"t1", "t2"}
HashtagLists == {<<>>, <<"rag">>}

\* datetime.isoformat() and datetime.fromisoformat()
IsoFormat(t) == "iso-" \o t
FromIsoFormat(s) == CHOOSE t \in Times : IsoFormat(t) = s

\* json.dumps and json.loads of a list of at most one hashtag
JsonDumps(h) == IF h = <<>> THEN "[]" ELSE "[\"" \o h[1] \o "\"]"
JsonLoads(s) == CHOOSE h \in HashtagLists : JsonDumps(h) = s

NoRow == [none |-> TRUE]
NoArg == [none |-> TRUE]

\* the state of a store that was never connected, over an empty database
\* file whose schema exists
StoreInit ==
    /\ conn = FALSE
    /\ vec_enabled = FALSE
    /\ posts = [d \in DocIds |-> NoRow]
    /\ chunk_rows = {}
    /\ chunks_fts = {}
    /\ embeddings = {}
    /\ seq = 0
    /\ last = [op |-> "init", ok |-> TRUE, arg |-> NoArg, ret |-> NoArg]

\* document bodies: a short one (one chunk), one of two paragraphs that
\* chunk() splits, and one of whitespace only
BodyShort == <<"a", ".">>
BodyLong == <<"a", "a", SP, "a", NL, NL, "a", ".", "a">>
BodyBlank == <<SP>>

NoPost == [none |-> TRUE]

\* the pages of the Notion database as the processes first find them, no
\* sync run and no poll in progress, nothing published yet
IdleSync == [pc |-> "idle", posts |-> <<>>, chunks |-> <<>>, i |-> 0,
             chunk_ids |-> <<>>, total |-> 0, synced |-> 0, errors |-> 0]
IdleWatch == [pc |-> "idle", ready_posts |-> <<>>, result |-> NoArg]
ProcIdle ==
    /\ notion = [d \in DocIds |->
                    [status |-> "Draft", mastodon_url |-> None,
                     content |-> IF d = "d1" THEN BodyLong ELSE BodyShort]]
    /\ sync = IdleSync
    /\ watch = IdleWatch
    /\ published = [d \in DocIds |-> 0]

\* the chunker run is not part of the store's specifications
ChunkIdle ==
    /\ c_text = <<>>
    /\ c_out = <<>>
    /\ c_pc = "idle"

ChunkInit ==
    /\ c_text \in Texts
    /\ c_out = <<>>
    /\ c_pc = "input"
    /\ vec_available = FALSE
    /\ StoreInit
    /\ ProcIdle

Chunk ==
    /\ c_pc = "input"
    /\ c_out' = chunk(c_text)
    /\ c_pc' = "done"
    /\ UNCHANGED <<c_text, storeVars, syncVars>>

SpecChunk == ChunkInit /\ [][Chunk]_vars

-----------------------------------------------------------------------------
(* Chunker claims (checked under SpecChunk) *)

\* s occurs in t as a contiguous run
IsSubSeq(s, t) ==
    \E i \in 0..(Len(t) - Len(s)) : SubSeq(t, i + 1, i + Len(s)) = s

\* the positions of t that hold a non-whitespace character
Inked(t) == {k \in 1..Len(t) : t[k] \notin WS}

\* s is t without its leading and trailing whitespace, stated without Strip
IsTrimOf(s, t) ==
    IF Inked(t) = {} THEN s = <<>>
    ELSE s = SubSeq(t, SetMin(Inked(t)), SetMax(Inked(t)))

TrimmedLen(t) ==
    IF Inked(t) = {} THEN 0 ELSE SetMax(Inked(t)) - SetMin(Inked(t)) + 1

\* C1: for every text whose trimmed length is at most short_content_threshold
\* (the threshold itself included), chunk returns the one-element list holding
\* the trimmed text when the text has a non-whitespace character, and the empty
\* list when the text is empty or whitespace-only.
C1_ShortTextIsOneChunk ==
    (c_pc = "done" /\ TrimmedLen(c_text) <= short_content_threshold) =>
        IF Inked(c_text) = {}
        THEN c_out = <<>>
        ELSE Len(c_out) = 1 /\ IsTrimOf(c_out[1], c_text)

\* C1 witness: a text exactly at the threshold, with a blank-line paragraph
\* break inside it, came back as one chunk
C1_Witness ==
    /\ c_pc = "done"
    /\ Len(c_text) = short_content_threshold
    /\ c_text[1] \notin WS /\ c_text[Len(c_text)] \notin WS
    /\ \E i \in 1..(Len(c_text) - 2) : c_text[i + 1] = NL /\ c_text[i + 2] = NL
    /\ c_out = <<c_text>>

\* the paragraphs of a long text, an oversized paragraph replaced by its
\* sentences: the pieces the chunker never cuts
RECURSIVE Flatten(_)
Flatten(ss) == IF ss = <<>> THEN <<>> ELSE Head(ss) \o Flatten(Tail(ss))

Units(text) ==
    LET paras == _split_paragraphs(Strip(text))
    IN  Flatten([k \in 1..Len(paras) |->
                    IF Len(paras[k]) > max_chunk_size
                    THEN _split_sentences(paras[k]) ELSE <<paras[k]>>])

\* C2: every chunk returned for a text longer than the threshold has length at
\* most max_chunk_size, unless the chunk is one single sentence (or
\* unpunctuated paragraph) that by itself exceeds max_chunk_size.
C2_ChunksWithinMax ==
    (c_pc = "done" /\ TrimmedLen(c_text) > short_content_threshold) =>
        \A k \in 1..Len(c_out) :
            \/ Len(c_out[k]) <= max_chunk_size
            \/ \E u \in 1..Len(Units(c_text)) : c_out[k] = Units(c_text)[u]

\* how many of units[i..] occur, in order, inside chunks[j..]: each unit inside
\* a chunk at or after the chunk that holds the unit before it
RECURSIVE CoveredFrom(_, _, _, _)
CoveredFrom(units, i, chunks, j) ==
    IF i > Len(units) THEN 0
    ELSE LET at == {k \in j..Len(chunks) : IsSubSeq(units[i], chunks[k])}
         IN  IF at = {} THEN 0
             ELSE 1 + CoveredFrom(units, i + 1, chunks, SetMin(at))

\* the length of the longest prefix of units that chunks hold in order
CoveredPrefix(units, chunks) == CoveredFrom(units, 1, chunks, 1)

RECURSIVE TotalLen(_)
TotalLen(ss) == IF ss = <<>> THEN 0 ELSE Len(Head(ss)) + TotalLen(Tail(ss))

\* C3: for a text longer than the threshold, every paragraph (an oversized one
\* sentence by sentence) occurs, in input order, inside the returned chunks;
\* what is missing is only the final running chunk, and only when that chunk is
\* shorter than min_chunk_size.
C3_ParagraphsCoveredInOrder ==
    (c_pc = "done" /\ TrimmedLen(c_text) > short_content_threshold) =>
        LET units == Units(c_text)
            n == CoveredPrefix(units, c_out)
            missing == SubSeq(units, n + 1, Len(units))
            running == MergeLoop([chunks |-> <<>>, current_chunk |-> <<>>],
                                 _split_paragraphs(Strip(c_text))).current_chunk
        IN  \/ n = Len(units)
            \/ /\ Len(Strip(running)) < min_chunk_size
               /\ \A k \in 1..Len(missing) : IsSubSeq(missing[k], running)
               /\ TotalLen(missing) + Len(missing) - 1 < min_chunk_size

\* C3 witness: a long text of three paragraphs, the first two returned as
\* chunks in order and the short last one dropped with the running chunk
C3_Witness ==
    /\ c_pc = "done"
    /\ TrimmedLen(c_text) > short_content_threshold
    /\ Len(_split_paragraphs(Strip(c_text))) = 3
    /\ Len(Units(c_text)) = 3
    /\ CoveredPrefix(Units(c_text), c_out) = 2
    /\ Len(c_out) = 2
    /\ c_out[1] # c_out[2]

-----------------------------------------------------------------------------
(* VectorDatabase: connection and document rows (database.py) *)

\* the documents handed to upsert_post: for every identifier, three documents
\* that differ from one another in every field but the identifier
DocVariants == {"A", "B", "C"}
Doc(id, v) ==
    [id |-> id,
     notion_url |-> IF v = "A" THEN None ELSE "https://notion/" \o id,
     title |-> IF v = "B" THEN "T2" ELSE "T1",
     content |-> IF v = "B" THEN BodyLong ELSE BodyShort,
     category |-> IF v = "B" THEN "cat" ELSE None,
     hashtags |-> IF v = "B" THEN <<"rag">> ELSE <<>>,
     status |-> CASE v = "A" -> "draft" [] v = "B" -> "ready" [] OTHER -> "posted",
     posted_at |-> IF v = "C" THEN "t2" ELSE None,
     mastodon_url |-> IF v = "C" THEN "https://m/1" ELSE None,
     created_at |-> IF v = "B" THEN "t2" ELSE "t1",
     updated_at |-> IF v = "A" THEN "t1" ELSE "t2"]
DocInputs == {Doc(id, v) : id \in DocIds, v \in DocVariants}

\* the URLs and times handed to mark_as_posted
MarkUrls == {"", "https://m/2"}
MarkTimes == {None, "t1"}

\* the parameters of the INSERT of upsert_post (lines 145-157)
RowOfPost(post) ==
    [id |-> post.id,
     notion_url |-> post.notion_url,
     title |-> post.title,
     content |-> post.content,
     category |-> post.category,
     hashtags |-> JsonDumps(post.hashtags),
     status |-> post.status,
     posted_at |-> IF post.posted_at # None
                   THEN IsoFormat(post.posted_at) ELSE None,
     mastodon_url |-> post.mastodon_url,
     created_at |-> IsoFormat(post.created_at),
     updated_at |-> IsoFormat(post.updated_at)]

\* mutant of UpsertRow: INSERT OR IGNORE, an existing row is left as it is
UpsertRow_ignore(old, excluded) == IF old = NoRow THEN excluded ELSE old

\* INSERT ... ON CONFLICT(id) DO UPDATE SET ... (lines 129-144): the row that
\* results from the row now stored under the id and the row offered
UpsertRow(old, excluded) ==
    IF old = NoRow THEN excluded
    ELSE [old EXCEPT !.notion_url = excluded.notion_url,
                     !.title = excluded.title,
                     !.content = excluded.content,
                     !.category = excluded.category,
                     !.hashtags = excluded.hashtags,
                     !.status = excluded.status,
                     !.posted_at = excluded.posted_at,
                     !.mastodon_url = excluded.mastodon_url,
                     !.updated_at = excluded.updated_at]

_row_to_post(row) ==
    [id |-> row.id,
     notion_url |-> row.notion_url,
     title |-> row.title,
     content |-> row.content,
     category |-> row.category,
     hashtags |-> IF row.hashtags # "" THEN JsonLoads(row.hashtags) ELSE <<>>,
     status |-> row.status,
     posted_at |-> IF row.posted_at # None /\ row.posted_at # ""
                   THEN FromIsoFormat(row.posted_at) ELSE None,
     mastodon_url |-> row.mastodon_url,
     created_at |-> FromIsoFormat(row.created_at),
     updated_at |-> FromIsoFormat(row.updated_at)]

\* get_post on a connected store: the Post, or NoRow for Python's None
get_post(post_id) ==
    IF posts[post_id] = NoRow THEN NoRow ELSE _row_to_post(posts[post_id])

\* is_posted on a connected store
is_posted(post_id) ==
    posts[post_id] # NoRow /\ posts[post_id].status = "posted"

\* mutant of MarkRow: the UPDATE sets the URL only where none is stored
MarkRow_keepurl(old, mastodon_url, posted_at, utcnow) ==
    IF old = NoRow THEN old
    ELSE [old EXCEPT !.status = "posted",
                     !.mastodon_url = IF @ = None THEN mastodon_url ELSE @,
                     !.posted_at = IsoFormat(posted_at),
                     !.updated_at = IsoFormat(utcnow)]

\* the UPDATE of mark_as_posted (lines 351-358); it changes no row when the id
\* is not stored
MarkRow(old, mastodon_url, posted_at, utcnow) ==
    IF old = NoRow THEN old
    ELSE [old EXCEPT !.status = "posted",
                     !.mastodon_url = mastodon_url,
                     !.posted_at = IsoFormat(posted_at),
                     !.updated_at = IsoFormat(utcnow)]

\* mutant of NotConnected: the call returns as if it had done its work
NotConnected_silent(op, arg) ==
    /\ ~conn
    /\ last' = [op |-> op, ok |-> TRUE, arg |-> arg, ret |-> NoArg]
    /\ UNCHANGED <<conn, vec_available, vec_enabled, dbVars>>

\* "if not self.conn: raise RuntimeError(...)": the call fails, nothing changes
NotConnected(op, arg) ==
    /\ ~conn
    /\ last' = [op |-> op, ok |-> FALSE, arg |-> arg,
                ret |-> [error |-> "Database not connected"]]
    /\ UNCHANGED <<conn, vec_available, vec_enabled, dbVars>>

\* connect() followed by initialize_schema(), as every script calls them: open
\* the connection with foreign keys on, load sqlite-vec if the deployment has
\* it, create the tables that do not exist yet
connect ==
    /\ conn' = TRUE
    /\ vec_enabled' = vec_available
    /\ last' = [op |-> "connect", ok |-> TRUE, arg |-> NoArg, ret |-> NoArg]
    /\ UNCHANGED <<vec_available, dbVars>>

close ==
    /\ conn' = FALSE
    /\ last' = [op |-> "close", ok |-> TRUE, arg |-> NoArg, ret |-> NoArg]
    /\ UNCHANGED <<vec_available, vec_enabled, dbVars>>

upsert_post(post) ==
    \/ NotConnected("upsert_post", post)
    \/ /\ conn
       /\ posts' = [posts EXCEPT ![post.id] = UpsertRow(@, RowOfPost(post))]
       /\ last' = [op |-> "upsert_post", ok |-> TRUE, arg |-> post,
                   ret |-> [existed |-> posts[post.id] # NoRow]]
       /\ UNCHANGED <<conn, vec_available, vec_enabled,
                      chunk_rows, chunks_fts, embeddings, seq>>

\* mark_as_posted(post_id, mastodon_url, posted_at); utcnow is what
\* datetime.utcnow() returns during the call
mark_as_posted(post_id, mastodon_url, posted_at, utcnow) ==
    LET arg == [post_id |-> post_id, mastodon_url |-> mastodon_url,
                posted_at |-> posted_at, utcnow |-> utcnow]
    IN  \/ NotConnected("mark_as_posted", arg)
        \/ /\ conn
           /\ posts' = [posts EXCEPT ![post_id] =
                           MarkRow(@, mastodon_url,
                                   IF posted_at = None THEN utcnow ELSE posted_at,
                                   utcnow)]
           /\ last' = [op |-> "mark_as_posted", ok |-> TRUE, arg |-> arg,
                       ret |-> NoArg]
           /\ UNCHANGED <<conn, vec_available, vec_enabled,
                          chunk_rows, chunks_fts, embeddings, seq>>

-----------------------------------------------------------------------------
(* The document operations of the store, called in any order *)

DocsInit ==
    /\ ChunkIdle
    /\ vec_available \in BOOLEAN
    /\ StoreInit
    /\ ProcIdle

Connect == connect /\ UNCHANGED envVars

Close == close /\ UNCHANGED envVars

UpsertPost == (\E post \in DocInputs : upsert_post(post)) /\ UNCHANGED envVars

MarkAsPosted ==
    /\ \E d \in DocIds, u \in MarkUrls, t \in MarkTimes, now \in Times :
        mark_as_posted(d, u, t, now)
    /\ UNCHANGED envVars

DocsNext ==
    \/ Connect
    \/ Close
    \/ UpsertPost
    \/ MarkAsPosted

SpecDocs == DocsInit /\ [][DocsNext]_vars

-----------------------------------------------------------------------------
(* Document claims (checked under SpecDocs) *)

\* the Post that get_post returns has the fields of post, the named one aside
SameBut(got, post, field) ==
    /\ got # NoRow
    /\ \A f \in (DOMAIN post) \ {field} : got[f] = post[f]

\* C4 as claimed: after a successful upsert_post(doc), get_post(doc.id)
\* returns a document equal to doc in every field, whether or not a row with
\* that identifier existed before.
C4_GetReturnsUpserted ==
    (last.op = "upsert_post" /\ last.ok) => get_post(last.arg.id) = last.arg

\* C4, amended: after upsert_post(doc), get_post(doc.id) equals doc in every
\* field except created_at, which is doc's when no row existed and the stored
\* row's otherwise; and the same upsert_post(doc) applied a second time
\* leaves every table as it was after the first.
C4_UpsertOverwritesButCreatedAt ==
    [][/\ (last'.op = "upsert_post" /\ last'.ok) =>
            LET doc == last'.arg
                got == IF posts'[doc.id] = NoRow THEN NoRow
                       ELSE _row_to_post(posts'[doc.id])
            IN  /\ SameBut(got, doc, "created_at")
                /\ got.created_at =
                       IF posts[doc.id] = NoRow THEN doc.created_at
                       ELSE FromIsoFormat(posts[doc.id].created_at)
                /\ \A d \in DocIds \ {doc.id} : posts'[d] = posts[d]
       /\ (last.op = "upsert_post" /\ last.ok /\ last'.op = "upsert_post"
              /\ last'.ok /\ last'.arg = last.arg) =>
            UNCHANGED dbVars
      ]_vars

\* C4 witness: an upsert that overwrote an existing row whose created_at
\* differs from the document's
C4_Witness ==
    /\ last.op = "upsert_post" /\ last.ok /\ last.ret.existed
    /\ get_post(last.arg.id).created_at # last.arg.created_at
    /\ SameBut(get_post(last.arg.id), last.arg, "created_at")

\* C11: after mark_as_posted(d, url, t) on a stored post d, get_post(d) has
\* status "posted", mastodon_url url and posted_at t (the time of the call
\* when t is None) and is_posted(d) is true; the call rewrites the row that
\* was there, whether or not it was marked before, keeps its other fields,
\* and changes no other post.
C11_MarkAsPostedSetsFields ==
    [][(/\ last'.op = "mark_as_posted"
        /\ last'.ok
        /\ posts[last'.arg.post_id] # NoRow) =>
        LET a == last'.arg
            before == posts[a.post_id]
            got == _row_to_post(posts'[a.post_id])
        IN  /\ got.status = "posted"
            /\ got.mastodon_url = a.mastodon_url
            /\ got.posted_at = IF a.posted_at = None THEN a.utcnow
                               ELSE a.posted_at
            /\ posts'[a.post_id] # NoRow /\ posts'[a.post_id].status = "posted"
            /\ \A f \in {"id", "notion_url", "title", "content", "category",
                         "hashtags", "created_at"} :
                posts'[a.post_id][f] = before[f]
            /\ \A d \in DocIds \ {a.post_id} : posts'[d] = posts[d]]_vars

\* mark_as_posted without a time has returned for a stored post created at
\* another time, while the other post is stored and not posted
C11_Witness ==
    /\ last.op = "mark_as_posted" /\ last.ok
    /\ last.arg.posted_at = None
    /\ posts[last.arg.post_id] # NoRow
    /\ is_posted(last.arg.post_id)
    /\ get_post(last.arg.post_id).posted_at = last.arg.utcnow
    /\ get_post(last.arg.post_id).mastodon_url = last.arg.mastodon_url
    /\ get_post(last.arg.post_id).created_at # last.arg.utcnow
    /\ \E d \in DocIds \ {last.arg.post_id} :
        posts[d] # NoRow /\ ~is_posted(d)

-----------------------------------------------------------------------------
(* VectorDatabase: chunks, the FTS5 index and embeddings (database.py) *)

MaxChunkId == 2

\* the chunks handed to insert_chunk (models.Chunk) and the vectors handed to
\* store_embedding; a vector is kept with one coordinate instead of 384
ChunkTexts == {<<"a", ".">>, <<"a", "a", SP, "a">>}
ChunkInputs ==
    {[post_id |-> d, chunk_index |-> IF t = <<"a", ".">> THEN 0 ELSE 1,
      content |-> t] : d \in DocIds, t \in ChunkTexts}
Vectors == {<<0>>, <<2>>}

\* the documents handed to upsert_post while chunks are exercised
BasicDocs == {Doc(id, "A") : id \in DocIds}

\* the characters that FTS5's default tokenizer keeps inside a token
TokenChars == {"a"}

\* the tokens FTS5 indexes for a text: its maximal runs of token characters
Tokens(text) ==
    {SubSeq(text, i, j) : i \in 1..Len(text), j \in 1..Len(text)} \cap
    {SubSeq(text, i, j) : <<i, j>> \in
        {ij \in (1..Len(text)) \X (1..Len(text)) :
            /\ ij[1] <= ij[2]
            /\ \A k \in ij[1]..ij[2] : text[k] \in TokenChars
            /\ (ij[1] = 1 \/ text[ij[1] - 1] \notin TokenChars)
            /\ (ij[2] = Len(text) \/ text[ij[2] + 1] \notin TokenChars)}}

\* trigger chunks_ai (lines 50-52)
chunks_ai(fts, new) == fts \cup {[rowid |-> new.id, content |-> new.content]}

\* mutant of chunks_ad: the delete trigger is missing
chunks_ad_missing(fts, old) == fts

\* trigger chunks_ad (lines 54-56): the FTS5 'delete' command
chunks_ad(fts, old) == fts \ {[rowid |-> old.id, content |-> old.content]}

\* mutant of ForeignKeyOk: PRAGMA foreign_keys is off, nothing is enforced
ForeignKeyOk_off(post_id) == TRUE

\* FOREIGN KEY (post_id) REFERENCES posts(id), enforced because connect()
\* sets PRAGMA foreign_keys = ON (line 75)
ForeignKeyOk(post_id) == posts[post_id] # NoRow

\* mutant of ChunkIdsOf: the SELECT has no WHERE clause
ChunkIdsOf_all(post_id) == {c.id : c \in chunk_rows}

\* "SELECT id FROM chunks WHERE post_id = ?" (lines 210-215)
ChunkIdsOf(post_id) == {c.id : c \in {r \in chunk_rows : r.post_id = post_id}}

RECURSIVE FireDeleteTriggers(_, _)
FireDeleteTriggers(fts, rows) ==
    IF rows = {} THEN fts
    ELSE LET old == CHOOSE r \in rows : TRUE
         IN  FireDeleteTriggers(chunks_ad(fts, old), rows \ {old})

\* mutant of EmbeddingsAfterDelete: the embeddings are never deleted
EmbeddingsAfterDelete_kept(post_id) == embeddings

\* the embeddings left by lines 218-225
EmbeddingsAfterDelete(post_id) ==
    IF vec_enabled /\ ChunkIdsOf(post_id) # {}
    THEN {e \in embeddings : e.chunk_id \notin ChunkIdsOf(post_id)}
    ELSE embeddings

\* the rows FROM chunks_fts JOIN chunks JOIN posts WHERE chunks_fts MATCH term
\* yields (lines 265-277), before ORDER BY and LIMIT
FtsMatches(term) ==
    {c \in chunk_rows :
        /\ \E f \in chunks_fts : f.rowid = c.id /\ term \in Tokens(f.content)
        /\ posts[c.post_id] # NoRow}

delete_chunks_for_post(post_id) ==
    LET arg == [post_id |-> post_id]
    IN  \/ NotConnected("delete_chunks_for_post", arg)
        \/ /\ conn
           /\ embeddings' = EmbeddingsAfterDelete(post_id)
           /\ chunk_rows' = {r \in chunk_rows : r.post_id # post_id}
           /\ chunks_fts' = FireDeleteTriggers(chunks_fts,
                                {r \in chunk_rows : r.post_id = post_id})
           /\ last' = [op |-> "delete_chunks_for_post", ok |-> TRUE,
                       arg |-> arg,
                       ret |-> [chunk_ids |-> ChunkIdsOf(post_id)]]
           /\ UNCHANGED <<conn, vec_available, vec_enabled, posts, seq>>

\* mutant of NextChunkId: without AUTOINCREMENT the id is one more than the
\* largest id in the table
NextChunkId_maxrow == SetMax({0} \cup {r.id : r \in chunk_rows}) + 1

\* "id INTEGER PRIMARY KEY AUTOINCREMENT" (line 35): one more than the
\* largest id the table has ever held, which sqlite_sequence records
NextChunkId == seq + 1

insert_chunk(row) ==
    \/ NotConnected("insert_chunk", row)
    \/ /\ conn
       /\ ~ForeignKeyOk(row.post_id)
       /\ last' = [op |-> "insert_chunk", ok |-> FALSE, arg |-> row,
                   ret |-> [error |-> "FOREIGN KEY constraint failed"]]
       /\ UNCHANGED <<conn, vec_available, vec_enabled, dbVars>>
    \/ /\ conn
       /\ ForeignKeyOk(row.post_id)
       /\ LET new == [id |-> NextChunkId, post_id |-> row.post_id,
                      chunk_index |-> row.chunk_index,
                      content |-> row.content]
          IN  /\ chunk_rows' = chunk_rows \cup {new}
              /\ chunks_fts' = chunks_ai(chunks_fts, new)
              /\ seq' = new.id
              /\ last' = [op |-> "insert_chunk", ok |-> TRUE, arg |-> row,
                          ret |-> [id |-> new.id]]
       /\ UNCHANGED <<conn, vec_available, vec_enabled, posts, embeddings>>

\* INSERT OR REPLACE INTO embeddings (lines 254-257)
PutEmbedding(embs, chunk_id, embedding) ==
    {e \in embs : e.chunk_id # chunk_id}
        \cup {[chunk_id |-> chunk_id, embedding |-> embedding]}

\* mutant of EmbeddingsAfterStore: the vec_enabled test is missing
EmbeddingsAfterStore_always(chunk_id, embedding) ==
    PutEmbedding(embeddings, chunk_id, embedding)

\* "if not self._vec_enabled: return" (lines 248-249), else the INSERT
EmbeddingsAfterStore(chunk_id, embedding) ==
    IF ~vec_enabled THEN embeddings
    ELSE PutEmbedding(embeddings, chunk_id, embedding)

store_embedding(chunk_id, embedding) ==
    LET arg == [chunk_id |-> chunk_id, embedding |-> embedding]
    IN  \/ NotConnected("store_embedding", arg)
        \/ /\ conn
           /\ embeddings' = EmbeddingsAfterStore(chunk_id, embedding)
           /\ last' = [op |-> "store_embedding", ok |-> TRUE, arg |-> arg,
                       ret |-> NoArg]
           /\ UNCHANGED <<conn, vec_available, vec_enabled, posts, chunk_rows,
                          chunks_fts, seq>>

-----------------------------------------------------------------------------
(* The search primitives and the read accessors of the store (database.py) *)

\* the positions <<first, last>> of the tokens of a text
TokenRuns(text) ==
    {ij \in (1..Len(text)) \X (1..Len(text)) :
        /\ ij[1] <= ij[2]
        /\ \A k \in ij[1]..ij[2] : text[k] \in TokenChars
        /\ (ij[1] = 1 \/ text[ij[1] - 1] \notin TokenChars)
        /\ (ij[2] = Len(text) \/ text[ij[2] + 1] \notin TokenChars)}

\* how often a term occurs in a text, and how many tokens the text has
TermFreq(term, text) ==
    Cardinality({ij \in TokenRuns(text) : SubSeq(text, ij[1], ij[2]) = term})
DocLen(text) == Cardinality(TokenRuns(text))

\* the number of tokens in the whole FTS index
RECURSIVE FtsTokens(_)
FtsTokens(fts) ==
    IF fts = {} THEN 0
    ELSE LET f == CHOOSE e \in fts : TRUE
         IN  DocLen(f.content) + FtsTokens(fts \ {f})

\* scores are kept as exact fractions n/d with d > 0
FracLess(x, y) == x.n * y.d < y.n * x.d
FracEq(x, y) == x.n * y.d = y.n * x.d
Neg(x) == [n |-> 0 - x.n, d |-> x.d]

\* bm25(chunks_fts) for a one-term query (line 267).  FTS5 computes
\* -idf * tf * (k1 + 1) / (tf + k1 * (1 - b + b * len / avglen)) with k1 = 1.2
\* and b = 0.75, avglen being the mean token count of the index; idf is the
\* same positive number for every row of one query, and the fraction here is
\* the score in units of idf
bm25(term, content) ==
    LET tf == TermFreq(term, content)
        total == FtsTokens(chunks_fts)
        rows == Cardinality(chunks_fts)
    IN  [n |-> 0 - 22 * tf * total,
         d |-> 10 * tf * total + 3 * total + 9 * DocLen(content) * rows]

\* LIMIT ? (line 274), and k = ? (line 311)
Limit(rows, limit) ==
    SubSeq(rows, 1, IF limit < Len(rows) THEN limit ELSE Len(rows))

\* the rows the lexical query selects, each with its raw score
FtsScored(term) ==
    {[id |-> r.id, post_id |-> r.post_id, content |-> r.content,
      raw |-> bm25(term, r.content)] : r \in FtsMatches(term)}

\* ORDER BY score (line 273): ascending raw score, rows of equal score in
\* rowid order, which is the order FTS5 scans them in
FtsBefore(r, o) ==
    \/ FracLess(r.raw, o.raw)
    \/ FracEq(r.raw, o.raw) /\ r.id < o.id

RECURSIVE FtsOrder(_)
FtsOrder(rows) ==
    IF rows = {} THEN <<>>
    ELSE LET first == CHOOSE r \in rows :
                        \A o \in rows \ {r} : FtsBefore(r, o)
         IN  <<first>> \o FtsOrder(rows \ {first})

\* the SearchResult built from one row of the lexical query (lines 279-290)
FtsResult(r) ==
    [chunk_id |-> r.id,
     post_id |-> r.post_id,
     content |-> r.content,
     score |-> Neg(r.raw),
     bm25_score |-> Neg(r.raw),
     semantic_score |-> None,
     title |-> posts[r.post_id].title,
     category |-> posts[r.post_id].category]

\* "WHERE chunks_fts MATCH ?" (line 271) parses the query string as an FTS5
\* expression: barewords separated by white space are accepted, a
\* punctuation character outside quotes and a string without any bareword
\* are syntax errors (sqlite3.OperationalError)
FtsQueryOk(query) ==
    /\ \A i \in 1..Len(query) : query[i] \in TokenChars \cup WS
    /\ Tokens(query) # {}

\* the barewords of a query are ANDed and bm25 adds up the scores of the
\* words; the queries of the model hold one word, once or several times
QueryTerm(query) == CHOOSE term \in Tokens(query) : TRUE
FtsQueryScored(query) ==
    {[r EXCEPT !.raw = [n |-> DocLen(query) * r.raw.n, d |-> r.raw.d]] :
        r \in FtsScored(QueryTerm(query))}

\* what fts_search returns on a connected store for a well-formed query
FtsSelect(query, limit) ==
    LET rows == Limit(FtsOrder(FtsQueryScored(query)), limit)
    IN  [i \in 1..Len(rows) |-> FtsResult(rows[i])]

\* the distance of the vec0 table between two vectors
Distance(u, v) == IF u[1] < v[1] THEN v[1] - u[1] ELSE u[1] - v[1]

\* the entries of the embeddings table, each with its distance to the query
VecScored(query_embedding) ==
    {[chunk_id |-> e.chunk_id,
      distance |-> Distance(query_embedding, e.embedding)] : e \in embeddings}

\* "embedding MATCH ? AND k = ? ORDER BY distance" (lines 311-312): the k
\* nearest entries of the embeddings table, nearest first, entries at the
\* same distance in chunk_id order
VecBefore(e, o) ==
    \/ e.distance < o.distance
    \/ e.distance = o.distance /\ e.chunk_id < o.chunk_id

RECURSIVE VecOrder(_)
VecOrder(embs) ==
    IF embs = {} THEN <<>>
    ELSE LET first == CHOOSE e \in embs :
                        \A o \in embs \ {e} : VecBefore(e, o)
         IN  <<first>> \o VecOrder(embs \ {first})

\* "JOIN chunks c ON e.chunk_id = c.id JOIN posts p ON c.post_id = p.id"
\* (lines 309-310) keeps the entries whose chunk row and posts row exist
HasChunk(e) ==
    \E c \in chunk_rows : c.id = e.chunk_id /\ posts[c.post_id] # NoRow

ChunkOf(e) == CHOOSE c \in chunk_rows : c.id = e.chunk_id

\* the SearchResult built from one row of the vector query (lines 316-327)
VecResult(e) ==
    [chunk_id |-> e.chunk_id,
     post_id |-> ChunkOf(e).post_id,
     content |-> ChunkOf(e).content,
     score |-> [n |-> 1 - e.distance, d |-> 1],
     bm25_score |-> None,
     semantic_score |-> [n |-> 1 - e.distance, d |-> 1],
     title |-> posts[ChunkOf(e).post_id].title,
     category |-> posts[ChunkOf(e).post_id].category]

\* what vector_search returns on a connected store
VectorSelect(query_embedding, limit) ==
    IF ~vec_enabled THEN <<>>
    ELSE LET rows == SelectSeq(Limit(VecOrder(VecScored(query_embedding)),
                                     limit),
                               HasChunk)
         IN  [i \in 1..Len(rows) |-> VecResult(rows[i])]

\* "SELECT * FROM posts WHERE status = ?" and "SELECT * FROM posts"; the
\* order of the rows is not kept
PostsByStatus(status) ==
    {_row_to_post(posts[d]) :
        d \in {x \in DocIds : posts[x] # NoRow /\ posts[x].status = status}}
AllPosts == {_row_to_post(posts[d]) : d \in {x \in DocIds : posts[x] # NoRow}}

\* a call that only reads: it raises when there is no connection, and
\* otherwise returns ret and changes nothing
ReadCall(op, arg, ret) ==
    \/ NotConnected(op, arg)
    \/ /\ conn
       /\ last' = [op |-> op, ok |-> TRUE, arg |-> arg, ret |-> ret]
       /\ UNCHANGED <<conn, vec_available, vec_enabled, dbVars>>

\* mutant of FtsCall: a search that succeeds drops the embeddings
FtsCall_writes(op, arg, query, ret) ==
    \/ NotConnected(op, arg)
    \/ /\ conn
       /\ ~FtsQueryOk(query)
       /\ last' = [op |-> op, ok |-> FALSE, arg |-> arg,
                   ret |-> [error |-> "fts5: syntax error"]]
       /\ UNCHANGED <<conn, vec_available, vec_enabled, dbVars>>
    \/ /\ conn
       /\ FtsQueryOk(query)
       /\ last' = [op |-> op, ok |-> TRUE, arg |-> arg, ret |-> ret]
       /\ embeddings' = {}
       /\ UNCHANGED <<conn, vec_available, vec_enabled, posts, chunk_rows,
                      chunks_fts, seq>>

\* a call whose first statement that can fail is fts_search(query, ...): it
\* raises when there is no connection or the query is no FTS5 expression, and
\* otherwise returns ret and changes nothing
FtsCall(op, arg, query, ret) ==
    \/ NotConnected(op, arg)
    \/ /\ conn
       /\ ~FtsQueryOk(query)
       /\ last' = [op |-> op, ok |-> FALSE, arg |-> arg,
                   ret |-> [error |-> "fts5: syntax error"]]
       /\ UNCHANGED <<conn, vec_available, vec_enabled, dbVars>>
    \/ /\ conn
       /\ FtsQueryOk(query)
       /\ last' = [op |-> op, ok |-> TRUE, arg |-> arg, ret |-> ret]
       /\ UNCHANGED <<conn, vec_available, vec_enabled, dbVars>>

fts_search(query, limit) ==
    FtsCall("fts_search", [query |-> query, limit |-> limit], query,
            [results |-> FtsSelect(query, limit)])

vector_search(query_embedding, limit) ==
    ReadCall("vector_search",
             [query_embedding |-> query_embedding, limit |-> limit],
             [results |-> VectorSelect(query_embedding, limit)])

get_post_call(post_id) ==
    ReadCall("get_post", [post_id |-> post_id], [value |-> get_post(post_id)])

is_posted_call(post_id) ==
    ReadCall("is_posted", [post_id |-> post_id],
             [value |-> is_posted(post_id)])

get_post_by_status(status) ==
    ReadCall("get_post_by_status", [status |-> status],
             [value |-> PostsByStatus(status)])

get_all_posts ==
    ReadCall("get_all_posts", NoArg, [value |-> AllPosts])

-----------------------------------------------------------------------------
(* The chunk operations of the store, called in any order *)

StoreSpecInit ==
    /\ ChunkIdle
    /\ vec_available \in BOOLEAN
    /\ StoreInit
    /\ ProcIdle

UpsertBasic == (\E post \in BasicDocs : upsert_post(post)) /\ UNCHANGED envVars

DeleteChunksForPost ==
    (\E d \in DocIds : delete_chunks_for_post(d)) /\ UNCHANGED envVars

InsertChunk ==
    /\ \E row \in ChunkInputs :
        /\ conn /\ ForeignKeyOk(row.post_id) => seq < MaxChunkId
        /\ insert_chunk(row)
    /\ UNCHANGED envVars

StoreEmbedding ==
    /\ \E id \in 1..MaxChunkId, v \in Vectors : store_embedding(id, v)
    /\ UNCHANGED envVars

StoreNext ==
    \/ Connect
    \/ Close
    \/ UpsertBasic
    \/ DeleteChunksForPost
    \/ InsertChunk
    \/ StoreEmbedding

SpecStore == StoreSpecInit /\ [][StoreNext]_vars

\* C5: when delete_chunks_for_post(d) returns on a connected store it has not
\* raised, even when d had no chunk; no chunk row of d, no FTS entry and no
\* embedding of a chunk of d is left; the chunk rows, FTS entries and
\* embeddings of the other documents, and every posts row, are unchanged.
C5_DeleteRemovesOnlyOwnChunks ==
    [][(last'.op = "delete_chunks_for_post" /\ conn) =>
        LET d == last'.arg.post_id
            owned == ChunkIdsOf(d)
        IN  /\ last'.ok
            /\ \A r \in chunk_rows' : r.post_id # d
            /\ \A f \in chunks_fts' : f.rowid \notin owned
            /\ \A e \in embeddings' : e.chunk_id \notin owned
            /\ chunk_rows' = {r \in chunk_rows : r.post_id # d}
            /\ chunks_fts' = {f \in chunks_fts : f.rowid \notin owned}
            /\ embeddings' = {e \in embeddings : e.chunk_id \notin owned}
            /\ posts' = posts]_vars

\* a delete that found chunks has returned, and another document still has a
\* chunk and its embedding
C5_Witness ==
    /\ last.op = "delete_chunks_for_post"
    /\ last.ok
    /\ last.ret.chunk_ids # {}
    /\ \E r \in chunk_rows :
        /\ r.post_id # last.arg.post_id
        /\ \E e \in embeddings : e.chunk_id = r.id

\* the FTS index holds one entry per chunk row, with that row's id and text
FtsMirrorsChunks ==
    /\ chunks_fts = {[rowid |-> r.id, content |-> r.content] : r \in chunk_rows}
    /\ Cardinality(chunks_fts) = Cardinality(chunk_rows)

\* the ids that were assigned and whose rows have been deleted
DeletedChunkIds == (1..seq) \ {r.id : r \in chunk_rows}

\* C6: in every state the FTS index holds exactly one entry per chunk row,
\* carrying the row's text, and none for a deleted chunk; right after a
\* successful insert_chunk the new row matches every token of its text; a
\* deleted chunk matches no term.
C6_LexicalIndexConsistent ==
    /\ FtsMirrorsChunks
    /\ \A f \in chunks_fts : f.rowid \notin DeletedChunkIds
    /\ (last.op = "insert_chunk" /\ last.ok) =>
        /\ Tokens(last.arg.content) # {}
        /\ \A term \in Tokens(last.arg.content) :
            \E r \in FtsMatches(term) :
                r.id = last.ret.id /\ r.content = last.arg.content
    /\ \A t \in ChunkTexts : \A term \in Tokens(t) :
        \A r \in FtsMatches(term) : r.id \notin DeletedChunkIds

\* a chunk was deleted, and the chunk inserted after it is found by its term
\* while the deleted one is not
C6_Witness ==
    /\ last.op = "insert_chunk"
    /\ last.ok
    /\ DeletedChunkIds # {}
    /\ {r.id : r \in FtsMatches(<<"a", "a">>)} = {last.ret.id}

\* every chunk row's post_id is the id of a stored posts row
ParentExists == \A r \in chunk_rows : posts[r.post_id] # NoRow

\* insert_chunk for a post_id with no posts row raises and changes neither
\* the chunk table nor the FTS index
InsertOrphanFails ==
    (last'.op = "insert_chunk" /\ conn /\ posts[last'.arg.post_id] = NoRow) =>
        /\ ~last'.ok
        /\ UNCHANGED <<chunk_rows, chunks_fts>>

\* C7: in every state each chunk row refers to a stored posts row (one, as
\* posts.id is the primary key), and insert_chunk for an id that is not
\* stored fails and leaves the chunk table and the FTS index unchanged.
C7_ChunkHasParent == []ParentExists /\ [][InsertOrphanFails]_vars

\* insert_chunk was refused for a document that is not stored while another
\* document has chunks
C7_Witness ==
    /\ last.op = "insert_chunk"
    /\ ~last.ok
    /\ last.ret.error = "FOREIGN KEY constraint failed"
    /\ posts[last.arg.post_id] = NoRow
    /\ chunk_rows # {}

\* C24: in every state each embedding entry is keyed by the id of exactly
\* one chunk row that exists, and no chunk row has more than one embedding
\* entry.
C24_EmbeddingsKeyedByChunks ==
    /\ \A e \in embeddings :
        Cardinality({r \in chunk_rows : r.id = e.chunk_id}) = 1
    /\ \A r \in chunk_rows :
        Cardinality({e \in embeddings : e.chunk_id = r.id}) <= 1

-----------------------------------------------------------------------------
(* Every call of the store, in any order, on a store of at most MaxConnChunkId
   chunks *)

MaxConnChunkId == 1
MaxLimit == 2

\* the queries and result limits handed to the searches
Queries == {<<"a">>, <<"a", "a">>}
Limits == 1..MaxLimit

ConnInsertChunk ==
    /\ \E row \in ChunkInputs :
        /\ conn /\ ForeignKeyOk(row.post_id) => seq < MaxConnChunkId
        /\ insert_chunk(row)
    /\ UNCHANGED envVars

ConnStoreEmbedding ==
    /\ \E id \in 1..MaxConnChunkId, v \in Vectors : store_embedding(id, v)
    /\ UNCHANGED envVars

MarkPosted ==
    (\E d \in DocIds : mark_as_posted(d, "", None, "t1"))
        /\ UNCHANGED envVars

FtsSearch ==
    (\E q \in Queries, limit \in Limits : fts_search(q, limit))
        /\ UNCHANGED envVars

VectorSearch ==
    (\E v \in Vectors, limit \in Limits : vector_search(v, limit))
        /\ UNCHANGED envVars

GetPost == (\E d \in DocIds : get_post_call(d)) /\ UNCHANGED envVars

IsPosted == (\E d \in DocIds : is_posted_call(d)) /\ UNCHANGED envVars

GetPostByStatus ==
    (\E status \in {"draft", "posted"} : get_post_by_status(status))
        /\ UNCHANGED envVars

GetAllPosts == get_all_posts /\ UNCHANGED envVars

ConnNext ==
    \/ Connect
    \/ Close
    \/ UpsertBasic
    \/ MarkPosted
    \/ DeleteChunksForPost
    \/ ConnInsertChunk
    \/ ConnStoreEmbedding
    \/ FtsSearch
    \/ VectorSearch
    \/ GetPost
    \/ IsPosted
    \/ GetPostByStatus
    \/ GetAllPosts

SpecConn == StoreSpecInit /\ [][ConnNext]_vars

\* on a connected store without a vector index, store_embedding returns and
\* changes nothing, vector_search returns no result, and insert_chunk for a
\* stored document adds its row
WithoutVectorIndex ==
    (conn /\ ~vec_enabled) =>
        /\ last'.op = "store_embedding" =>
            /\ last'.ok
            /\ UNCHANGED <<conn, vec_enabled, dbVars>>
        /\ last'.op = "vector_search" =>
            /\ last'.ok
            /\ last'.ret.results = <<>>
        /\ (last'.op = "insert_chunk" /\ posts[last'.arg.post_id] # NoRow) =>
            /\ last'.ok
            /\ \E r \in chunk_rows' \ chunk_rows :
                /\ r.id = last'.ret.id
                /\ r.post_id = last'.arg.post_id
                /\ r.content = last'.arg.content

\* C12: while vec_enabled is false no embedding entry exists, and on a
\* connected store store_embedding returns without error and changes nothing,
\* vector_search returns the empty sequence without error, and insert_chunk
\* for a stored document still succeeds.
C12_NoVectorIndex ==
    /\ [](~vec_enabled => embeddings = {})
    /\ [][WithoutVectorIndex]_vars

\* store_embedding has returned for a stored chunk on a connected store
\* without a vector index, and the chunk has no embedding
C12_Witness ==
    /\ conn
    /\ ~vec_enabled
    /\ last.op = "store_embedding"
    /\ last.ok
    /\ \E r \in chunk_rows : r.id = last.arg.chunk_id
    /\ embeddings = {}

\* the calls of the store that need a connection
StoreOps ==
    {"upsert_post", "delete_chunks_for_post", "insert_chunk",
     "store_embedding", "mark_as_posted", "fts_search", "vector_search",
     "get_post", "is_posted", "get_post_by_status", "get_all_posts"}

\* C13: a store call made while the store is not connected (before connect()
\* or after close()) fails with the not-connected error and leaves the
\* connection, the documents, the chunks, the FTS index and the embeddings as
\* they were; the call is one step, so nothing is retried.
C13_NotConnectedFails ==
    [][(~conn /\ last'.op \in StoreOps) =>
        /\ ~last'.ok
        /\ last'.ret = [error |-> "Database not connected"]
        /\ UNCHANGED <<conn, vec_enabled, dbVars>>]_vars

\* after close() a lexical search was refused although a stored chunk holds
\* the term
C13_Witness ==
    /\ ~conn
    /\ last.op = "fts_search"
    /\ ~last.ok
    /\ \E r \in chunk_rows : last.arg.query \in Tokens(r.content)
    /\ \E d \in DocIds : posts[d] # NoRow /\ posts[d].status = "posted"

-----------------------------------------------------------------------------
(* NotionClient, EmbeddingService, NotionSync (notion_client.py,           *)
(* embeddings.py, sync.py)                                                  *)

MaxSyncChunkId == 3

PageStatuses == {"Draft", "Ready", "Posted"}
\* the pages of the database in the order a query returns them
IsPage(page_id) == page_id \in DOMAIN notion
PageOrder == SelectSeq(<<"d1", "d2">>, IsPage)
Bodies == {BodyShort, BodyLong}
\* the bodies the owner gives a page: the first page has one or two chunks,
\* the second is one sentence or white space
BodiesOf(page_id) ==
    IF page_id = "d1" THEN Bodies ELSE {BodyShort, BodyBlank}

\* str.lower() on the names of the Status property
Lower(status) ==
    CASE status = "Draft" -> "draft"
      [] status = "Ready" -> "ready"
      [] status = "Posted" -> "posted"

\* _page_to_post: the Post built from a page, NoPost for Python's None
_page_to_post(page_id) ==
    LET page == notion[page_id]
    IN  IF page.content = <<>> THEN NoPost
        ELSE [id |-> page_id,
              notion_url |-> "https://notion/" \o page_id,
              title |-> "T1",
              content |-> page.content,
              category |-> None,
              hashtags |-> <<>>,
              status |-> Lower(page.status),
              posted_at |-> None,
              mastodon_url |-> page.mastodon_url,
              created_at |-> "t1",
              updated_at |-> "t1"]

RECURSIVE PagesToPosts(_)
PagesToPosts(ids) ==
    IF ids = <<>> THEN <<>>
    ELSE LET post == _page_to_post(Head(ids))
         IN  (IF post = NoPost THEN <<>> ELSE <<post>>)
                 \o PagesToPosts(Tail(ids))

fetch_all_posts == PagesToPosts(PageOrder)

IsStatus(status, page_id) == notion[page_id].status = status

RECURSIVE FilterStatus(_, _)
FilterStatus(ids, status) ==
    IF ids = <<>> THEN <<>>
    ELSE (IF IsStatus(status, Head(ids)) THEN <<Head(ids)>> ELSE <<>>)
             \o FilterStatus(Tail(ids), status)

fetch_posts_by_status(status) == PagesToPosts(FilterStatus(PageOrder, status))

\* EmbeddingService.embed on one text: the vector is a function of the text
\* alone; the encoder is stood for by one that places a text by its length
embed(text) == <<Len(text)>>

\* mutant of SyncChunks: the content is stored whole, never chunked
SyncChunks_whole(post) == <<post.content>>

\* lines 70-74: the chunker's output, or the whole content when it is empty
SyncChunks(post) ==
    LET chunks == chunk(post.content)
    IN  IF chunks = <<>> THEN <<post.content>> ELSE chunks

\* mutant of Raised: the exception ends the loop
Raised_abort(run) ==
    [run EXCEPT !.errors = @ + 1, !.i = 0, !.chunks = <<>>,
                !.chunk_ids = <<>>, !.pc = "return"]

\* the except clause (lines 101-104): one error, on to the next post
Raised(run) ==
    [run EXCEPT !.posts = Tail(@), !.errors = @ + 1, !.i = 0,
                !.chunks = <<>>, !.chunk_ids = <<>>,
                !.pc = IF Tail(run.posts) = <<>> THEN "return" ELSE "upsert"]

\* line 99: the post is synced, on to the next post
Synced(run) ==
    [run EXCEPT !.posts = Tail(@), !.synced = @ + 1, !.i = 0,
                !.chunks = <<>>, !.chunk_ids = <<>>,
                !.pc = IF Tail(run.posts) = <<>> THEN "return" ELSE "upsert"]

\* sync_all (status = None) and sync_by_status up to the loop: fetch the posts
SyncFetch ==
    /\ sync.pc = "idle"
    /\ \E status \in {None, "Ready"} :
        LET fetched == IF status = None THEN fetch_all_posts
                       ELSE fetch_posts_by_status(status)
        IN  sync' = [IdleSync EXCEPT
                        !.posts = fetched, !.total = Len(fetched),
                        !.pc = IF fetched = <<>> THEN "return" ELSE "upsert"]
    /\ UNCHANGED <<chunkVars, storeVars, notion, watch, published>>

SyncUpsert ==
    /\ sync.pc = "upsert"
    /\ upsert_post(Head(sync.posts))
    /\ sync' = IF last'.ok THEN [sync EXCEPT !.pc = "delete"] ELSE Raised(sync)
    /\ UNCHANGED <<chunkVars, notion, watch, published>>

\* mutant of SyncDeleteCall: the old chunks are not deleted
SyncDeleteCall_skipped(post_id) ==
    /\ last' = [op |-> "delete_chunks_for_post", ok |-> TRUE,
                arg |-> [post_id |-> post_id], ret |-> [chunk_ids |-> {}]]
    /\ UNCHANGED <<conn, vec_available, vec_enabled, dbVars>>

\* line 67
SyncDeleteCall(post_id) == delete_chunks_for_post(post_id)

\* lines 67-78: delete the old chunks, chunk the content
SyncDelete ==
    /\ sync.pc = "delete"
    /\ SyncDeleteCall(Head(sync.posts).id)
    /\ sync' = IF last'.ok
               THEN [sync EXCEPT !.pc = "insert", !.i = 0,
                                 !.chunks = SyncChunks(Head(sync.posts))]
               ELSE Raised(sync)
    /\ UNCHANGED <<chunkVars, notion, watch, published>>

\* one round of the loop of lines 80-89
SyncInsert ==
    /\ sync.pc = "insert"
    /\ seq < MaxSyncChunkId
    /\ insert_chunk([post_id |-> Head(sync.posts).id, chunk_index |-> sync.i,
                     content |-> sync.chunks[sync.i + 1]])
    /\ sync' = IF ~last'.ok THEN Raised(sync)
               ELSE [sync EXCEPT
                        !.i = @ + 1,
                        !.chunk_ids = Append(@, last'.ret.id),
                        !.pc = IF sync.i + 1 = Len(sync.chunks)
                               THEN "embed" ELSE "insert"]
    /\ UNCHANGED <<chunkVars, notion, watch, published>>

\* line 93: embedder.embed(chunk_texts) returns
SyncEmbed ==
    /\ sync.pc = "embed"
    /\ sync' = [sync EXCEPT !.pc = "store", !.i = 0]
    /\ UNCHANGED <<chunkVars, storeVars, notion, watch, published>>

\* one round of the loop of lines 95-97, and line 99 after the last round
SyncStore ==
    /\ sync.pc = "store"
    /\ store_embedding(sync.chunk_ids[sync.i + 1],
                       embed(sync.chunks[sync.i + 1]))
    /\ sync' = IF ~last'.ok THEN Raised(sync)
               ELSE IF sync.i + 1 = Len(sync.chunk_ids) THEN Synced(sync)
               ELSE [sync EXCEPT !.i = @ + 1]
    /\ UNCHANGED <<chunkVars, notion, watch, published>>

\* the call the run is about to make raises (sqlite3 error, embedding model
\* failure) before it changes anything
SyncRaise ==
    /\ sync.pc \in {"upsert", "delete", "insert", "embed", "store"}
    /\ sync' = Raised(sync)
    /\ UNCHANGED <<chunkVars, storeVars, notion, watch, published>>

\* the run returns its statistics
SyncReturn ==
    /\ sync.pc = "return"
    /\ sync' = IdleSync
    /\ UNCHANGED <<chunkVars, storeVars, notion, watch, published>>

-----------------------------------------------------------------------------
(* MastodonPoster and NotionWatcher.poll_once (poster.py, watcher.py) *)

MaxPublish == 2

Now == "t2"
StatusUrl == "https://m/1"

\* the loop of poll_once moves to the next ready post, or the poll returns
NextReady(w) ==
    [w EXCEPT !.ready_posts = Tail(@), !.result = NoArg,
              !.pc = IF Tail(w.ready_posts) = <<>> THEN "idle" ELSE "check"]

\* line 63
WatchFetch ==
    /\ watch.pc = "idle"
    /\ LET ready_posts == fetch_posts_by_status("Ready")
       IN  watch' = [IdleWatch EXCEPT
                        !.ready_posts = ready_posts,
                        !.pc = IF ready_posts = <<>> THEN "idle" ELSE "check"]
    /\ UNCHANGED <<chunkVars, storeVars, notion, sync, published>>

\* lines 71-75
WatchCheck ==
    /\ watch.pc = "check"
    /\ conn
    /\ watch' = IF is_posted(Head(watch.ready_posts).id) THEN NextReady(watch)
                ELSE [watch EXCEPT !.pc = "post"]
    /\ UNCHANGED <<chunkVars, storeVars, notion, sync, published>>

\* line 81, poster.post returns success: Mastodon created the status; the
\* "url" of its answer may be null
WatchPost ==
    /\ watch.pc = "post"
    /\ published[Head(watch.ready_posts).id] < MaxPublish
    /\ published' = [published EXCEPT ![Head(watch.ready_posts).id] = @ + 1]
    /\ \E url \in {StatusUrl, None} :
        watch' = [watch EXCEPT
                     !.pc = "mark",
                     !.result = [success |-> TRUE, mastodon_url |-> url]]
    /\ UNCHANGED <<chunkVars, storeVars, notion, sync>>

\* line 81, poster.post returns an error result (lines 103-109)
WatchPostFails ==
    /\ watch.pc = "post"
    /\ watch' = NextReady(watch)
    /\ UNCHANGED <<chunkVars, storeVars, notion, sync, published>>

\* "result.mastodon_url or ''"
OrEmpty(url) == IF url = None THEN "" ELSE url

\* line 85; an exception ends the poll (lines 111-114)
WatchMark ==
    /\ watch.pc = "mark"
    /\ mark_as_posted(Head(watch.ready_posts).id,
                      OrEmpty(watch.result.mastodon_url), None, Now)
    /\ watch' = IF last'.ok THEN [watch EXCEPT !.pc = "update"] ELSE IdleWatch
    /\ UNCHANGED <<chunkVars, notion, sync, published>>

\* line 85 raises (sqlite3 error) before it changes anything
WatchMarkRaises ==
    /\ watch.pc = "mark"
    /\ watch' = IdleWatch
    /\ UNCHANGED <<chunkVars, storeVars, notion, sync, published>>

\* NotionClient.update_status(page_id, "Posted", mastodon_url)
update_status(page_id, status, mastodon_url) ==
    [notion EXCEPT ![page_id] =
        [@ EXCEPT !.status = status,
                  !.mastodon_url = IF mastodon_url # None /\ mastodon_url # ""
                                   THEN mastodon_url ELSE @]]

\* lines 88-91
WatchUpdateStatus ==
    /\ watch.pc = "update"
    /\ notion' = update_status(Head(watch.ready_posts).id, "Posted",
                               watch.result.mastodon_url)
    /\ watch' = NextReady(watch)
    /\ UNCHANGED <<chunkVars, storeVars, sync, published>>

\* lines 92-94: update_status raises, the watcher only warns
WatchUpdateStatusFails ==
    /\ watch.pc = "update"
    /\ watch' = NextReady(watch)
    /\ UNCHANGED <<chunkVars, storeVars, notion, sync, published>>

-----------------------------------------------------------------------------
(* The owner of the Notion database edits its pages *)

UserSetsStatus ==
    /\ \E d \in DOMAIN notion, status \in PageStatuses :
        /\ notion[d].status # status
        /\ notion' = [notion EXCEPT ![d].status = status]
    /\ UNCHANGED <<chunkVars, storeVars, sync, watch, published>>

UserEditsContent ==
    /\ \E d \in DOMAIN notion : \E body \in BodiesOf(d) :
        /\ notion[d].content # body
        /\ notion' = [notion EXCEPT ![d].content = body]
    /\ UNCHANGED <<chunkVars, storeVars, sync, watch, published>>

\* sync_notion.py or watch.py has connected and initialised the schema
Connected ==
    /\ vec_available \in BOOLEAN
    /\ conn = TRUE
    /\ vec_enabled = vec_available
    /\ posts = [d \in DocIds |-> NoRow]
    /\ chunk_rows = {}
    /\ chunks_fts = {}
    /\ embeddings = {}
    /\ seq = 0
    /\ last = [op |-> "connect", ok |-> TRUE, arg |-> NoArg, ret |-> NoArg]

-----------------------------------------------------------------------------
(* Sync runs, one at a time, over a Notion database whose owner edits the  *)
(* page contents                                                            *)

SyncInit ==
    /\ ChunkIdle
    /\ Connected
    /\ ProcIdle

SyncNext ==
    \/ SyncFetch
    \/ SyncUpsert
    \/ SyncDelete
    \/ SyncInsert
    \/ SyncEmbed
    \/ SyncStore
    \/ SyncRaise
    \/ SyncReturn
    \/ UserEditsContent

SpecSync == SyncInit /\ [][SyncNext]_vars

-----------------------------------------------------------------------------
(* A watcher process and a sync process on one database file, over a       *)
(* Notion database of one page whose owner edits the page's status         *)

WatchInit ==
    /\ ChunkIdle
    /\ Connected
    /\ notion = [d \in {"d1"} |->
                    [status |-> "Draft", mastodon_url |-> None,
                     content |-> BodyShort]]
    /\ sync = IdleSync
    /\ watch = IdleWatch
    /\ published = [d \in DocIds |-> 0]

WatchNext ==
    \/ SyncFetch
    \/ SyncUpsert
    \/ SyncDelete
    \/ SyncInsert
    \/ SyncEmbed
    \/ SyncStore
    \/ SyncRaise
    \/ SyncReturn
    \/ WatchFetch
    \/ WatchCheck
    \/ WatchPost
    \/ WatchPostFails
    \/ WatchMark
    \/ WatchMarkRaises
    \/ WatchUpdateStatus
    \/ WatchUpdateStatusFails
    \/ UserSetsStatus

SpecWatch == WatchInit /\ [][WatchNext]_vars

-----------------------------------------------------------------------------
(* Sync and watcher properties *)

ChunksOf(post_id) == {r \in chunk_rows : r.post_id = post_id}

\* the chunks the chunker gives for a body, the whole body when it gives none
ChunksOfBody(body) == IF chunk(body) = <<>> THEN <<body>> ELSE chunk(body)

\* C8: in every state of a sequence of sync runs made one at a time, runs in
\* which a post fails part-way included, the chunk_index values stored for
\* each post are pairwise distinct and are exactly 0..n-1 for its n chunks.
C8_OrdinalsContiguous ==
    \A d \in DocIds :
        {r.chunk_index : r \in ChunksOf(d)} = 0..(Cardinality(ChunksOf(d)) - 1)

\* a run has ended in which the sync of a two-chunk post broke off after its
\* first chunk, the post's earlier chunks having been deleted by that run
C8_Witness ==
    /\ sync.pc = "return"
    /\ sync.errors > 0
    /\ DeletedChunkIds # {}
    /\ \E d \in DocIds :
        /\ posts[d] # NoRow
        /\ Len(SyncChunks(_row_to_post(posts[d]))) = 2
        /\ Cardinality(ChunksOf(d)) = 1

\* C9: in every state a stored post whose status is "posted" has a
\* mastodon_url that is neither NULL nor empty.
C9_PostedHasUrl ==
    \A d \in DocIds :
        (posts[d] # NoRow /\ posts[d].status = "posted") =>
            posts[d].mastodon_url \notin {None, ""}

\* C10: a step that takes a stored post from another status to "posted" is a
\* mark_as_posted call for that post made after Mastodon created a status
\* for it; no step of a sync run does it.
C10_PostedOnlyAfterPublish ==
    [][\A d \in DocIds :
        (/\ posts[d] # NoRow
         /\ posts[d].status # "posted"
         /\ posts'[d].status = "posted") =>
            /\ last'.op = "mark_as_posted"
            /\ last'.arg.post_id = d
            /\ published[d] > 0]_vars

\* the statistics of a run account for every fetched post: one that was
\* handled is counted once, as synced or as an error
TallyComplete ==
    sync.pc # "idle" =>
        /\ sync.synced + sync.errors + Len(sync.posts) = sync.total
        /\ sync.pc = "return" =>
            /\ sync.posts = <<>>
            /\ sync.synced + sync.errors = sync.total

\* a step of a run in which the handling of a post fails counts one error,
\* leaves the count of synced posts alone and goes on to the next post of
\* the batch, returning only when there is none
FailureIsTallied ==
    (sync.pc \notin {"idle", "return"} /\ sync'.errors # sync.errors) =>
        /\ sync'.errors = sync.errors + 1
        /\ sync'.synced = sync.synced
        /\ sync'.total = sync.total
        /\ sync'.posts = Tail(sync.posts)
        /\ sync'.pc = IF Tail(sync.posts) = <<>> THEN "return" ELSE "upsert"

\* C22: in a batch sync a failure while a post is handled (a store error, a
\* chunk insertion error, an embedding failure) is counted as exactly one
\* error and does not end the batch: the posts after it are still handled,
\* and when the run returns synced + errors = total.
C22_FailureCountedBatchContinues ==
    []TallyComplete /\ [][FailureIsTallied]_vars

\* a run over two posts has ended: the first post failed before it was
\* stored, the second one was synced after it
C22_Witness ==
    /\ sync.pc = "return"
    /\ sync.total = 2
    /\ sync.errors = 1
    /\ sync.synced = 1
    /\ posts["d1"] = NoRow
    /\ ChunksOf("d2") # {}

\* insert_chunk returns an id above every id assigned so far, which is not
\* the id of a stored or of a deleted chunk, and stores the new row under it
InsertGivesFreshId ==
    (last' # last /\ last'.op = "insert_chunk" /\ last'.ok) =>
        /\ last'.ret.id > seq
        /\ last'.ret.id \notin DeletedChunkIds
        /\ \A r \in chunk_rows : r.id # last'.ret.id
        /\ seq' = last'.ret.id
        /\ \E r \in chunk_rows' :
            r.id = last'.ret.id /\ r.post_id = last'.arg.post_id

\* C28: insert_chunk always returns an id that no earlier chunk was given,
\* the deleted ones included: no stored id is above the largest id assigned
\* so far, that mark never goes down, and every insert returns an id above
\* it; so the chunks of a re-synced post never carry the id of an old chunk.
C28_ChunkIdsNeverReused ==
    /\ [](\A r \in chunk_rows : r.id \in 1..seq)
    /\ [][seq' >= seq]_vars
    /\ [][InsertGivesFreshId]_vars

\* the first post had the chunks 1 and 2; its re-sync has deleted them and
\* its new chunk was given the id 3
C28_Witness ==
    /\ last.op = "insert_chunk"
    /\ last.ok
    /\ last.arg.post_id = "d1"
    /\ last.ret.id = 3
    /\ DeletedChunkIds = {1, 2}
    /\ sync.chunk_ids = <<3>>

\* between the syncs of two posts every post is as its last sync that ended
\* without error left it: not stored and without chunks, or stored with the
\* chunks of its stored body, each with its FTS entry and, with a vector
\* index, its embedding
AsLastSyncLeftIt ==
    sync.pc \in {"idle", "upsert", "return"} =>
        \A d \in DocIds :
            IF posts[d] = NoRow THEN ChunksOf(d) = {}
            ELSE LET expected == ChunksOfBody(posts[d].content)
                 IN  /\ Cardinality(ChunksOf(d)) = Len(expected)
                     /\ \A r \in ChunksOf(d) :
                         /\ r.chunk_index \in 0..(Len(expected) - 1)
                         /\ r.content = expected[r.chunk_index + 1]
                         /\ \E f \in chunks_fts : f.rowid = r.id
                         /\ vec_enabled =>
                             \E e \in embeddings : e.chunk_id = r.id

\* the step in which the sync of a post fails leaves no chunk row that this
\* sync inserted
FailureLeavesNoNewChunk ==
    (sync.pc \notin {"idle", "return"} /\ sync'.errors = sync.errors + 1) =>
        \A r \in chunk_rows' :
            \A i \in 1..Len(sync.chunk_ids) : r.id # sync.chunk_ids[i]

\* C29: when the sync of a post fails at any step, the post's stored row,
\* chunks, FTS entries and embeddings are what they were before that sync
\* began: no chunk inserted by the failed sync is left, and between syncs
\* every post is as its last sync without error left it.
C29_FailedSyncLeavesNoTrace ==
    []AsLastSyncLeftIt /\ [][FailureLeavesNoNewChunk]_vars

\* C27: over any sequence of polls of the watcher and of sync runs, Mastodon
\* creates at most one status for each document.
C27_PublishedAtMostOnce == \A d \in DocIds : published[d] <= 1

\* the step that ends the sync of a post without error (line 99) leaves, for
\* that post, one chunk row per chunk of its stored body, in order and under
\* the ids this sync was given; no FTS entry and no embedding is left for an
\* id without a row; a term that is in none of the new chunks matches no
\* chunk of the post
SyncedPostIsRechunked ==
    (sync.pc = "store" /\ sync'.synced = sync.synced + 1) =>
        LET d == Head(sync.posts).id
            body == posts'[d].content
            expected == ChunksOfBody(body)
            rows == {r \in chunk_rows' : r.post_id = d}
            ids == {r.id : r \in chunk_rows'}
        IN  /\ body = Head(sync.posts).content
            /\ Cardinality(rows) = Len(expected)
            /\ \A r \in rows :
                /\ r.chunk_index \in 0..(Len(expected) - 1)
                /\ r.content = expected[r.chunk_index + 1]
                /\ r.id = sync.chunk_ids[r.chunk_index + 1]
            /\ \A f \in chunks_fts' : f.rowid \in ids
            /\ \A e \in embeddings' : e.chunk_id \in ids
            /\ vec_enabled =>
                \A r \in rows :
                    [chunk_id |-> r.id, embedding |-> embed(r.content)]
                        \in embeddings'
            /\ \A term \in Queries :
                (\A i \in 1..Len(expected) : term \notin Tokens(expected[i]))
                    => \A r \in (FtsMatches(term))' : r.post_id # d

\* C23: after a sync of a post that ended without error the chunks stored
\* for it are the chunker's output for its body, in order, or the whole body
\* as one chunk when the chunker returns nothing; the chunks, FTS entries and
\* embeddings of its earlier syncs are gone, and a lexical search for a word
\* that was only in the old body finds nothing of the post.
C23_SyncReplacesChunks == [][SyncedPostIsRechunked]_vars

\* the first post, once synced with its two-paragraph body under the ids 1
\* and 2, has been synced again with the short body: its one chunk has the
\* id 3 and the word of the old body matches nothing
C23_Witness ==
    /\ sync.pc \in {"upsert", "return"}
    /\ sync.synced >= 1
    /\ posts["d1"] # NoRow
    /\ posts["d1"].content = BodyShort
    /\ {r.id : r \in ChunksOf("d1")} = {3}
    /\ FtsMatches(<<"a", "a">>) = {}
    /\ vec_enabled
    /\ {e.chunk_id : e \in embeddings} = {3}

\* a post whose body is white space has been synced: the chunker gives no
\* chunk and the body is stored as the post's one chunk
C23_WitnessBlank ==
    /\ sync.pc = "return"
    /\ sync.synced >= 1
    /\ posts["d2"] # NoRow
    /\ posts["d2"].content = BodyBlank
    /\ \E r \in chunk_rows : r.post_id = "d2" /\ r.content = BodyBlank

-----------------------------------------------------------------------------
(* HybridSearch (hybrid_search.py) and RAG.query (rag.py) *)

\* the constant of the RRF formula, and the weights: alpha is a / AlphaDen
\* for a in Alphas, so that 0, 1 and the default 0.5 are among them
rrf_k == 60
AlphaDen == 2
Alphas == 0..AlphaDen

\* mutant of Slice: the list is not cut
Slice_all(results, limit) == results

\* results[:limit]
Slice(results, limit) ==
    SubSeq(results, 1, IF limit < Len(results) THEN limit ELSE Len(results))

\* mutant of FracAdd: "=" in place of "+=", the second term replaces the first
FracAdd_overwrite(x, y) == y

FracAdd(x, y) == [n |-> x.n * y.d + y.n * x.d, d |-> x.d * y.d]

\* mutant of RrfTerm: the rank is left out of the term
RrfTerm_norank(w, rank) == [n |-> w, d |-> AlphaDen * rrf_k]

\* weight * (1.0 / (self.rrf_k + rank)) for the weight w / AlphaDen
RrfTerm(w, rank) == [n |-> w, d |-> AlphaDen * (rrf_k + rank)]

\* the rrf_score of a chunk at the given ranks of the two lists, rank 0
\* standing for a list that does not hold it (lines 89-109)
RrfScore(alpha, bm25_rank, semantic_rank) ==
    IF semantic_rank = 0 THEN RrfTerm(AlphaDen - alpha, bm25_rank)
    ELSE IF bm25_rank = 0 THEN RrfTerm(alpha, semantic_rank)
    ELSE FracAdd(RrfTerm(AlphaDen - alpha, bm25_rank),
                 RrfTerm(alpha, semantic_rank))

\* the 1-based position of a chunk in a result list, 0 when it is not there
RankIn(results, chunk_id) ==
    IF \E i \in 1..Len(results) : results[i].chunk_id = chunk_id
    THEN CHOOSE i \in 1..Len(results) : results[i].chunk_id = chunk_id
    ELSE 0

\* EmbeddingService.embed_single
embed_single(text) == embed(text)

\* the scores dictionary of lines 87-118, in insertion order: one entry per
\* BM25 result, then one per semantic result that BM25 did not return
ScoreEntries(alpha, bm25_results, semantic_results) ==
    LET fromBm25 ==
            [i \in 1..Len(bm25_results) |->
                LET r == bm25_results[i]
                    j == RankIn(semantic_results, r.chunk_id)
                IN  [result |-> r,
                     rrf_score |-> RrfScore(alpha, i, j),
                     bm25_score |-> r.bm25_score,
                     semantic_score |->
                        IF j = 0 THEN None
                        ELSE semantic_results[j].semantic_score]]
        fromSemantic ==
            [j \in 1..Len(semantic_results) |->
                [result |-> semantic_results[j],
                 rrf_score |-> RrfScore(alpha, 0, j),
                 bm25_score |-> None,
                 semantic_score |-> semantic_results[j].semantic_score]]
        IsNew(e) == RankIn(bm25_results, e.result.chunk_id) = 0
    IN  fromBm25 \o SelectSeq(fromSemantic, IsNew)

\* mutant of SortedByScore: an ascending sort turned round, so that entries
\* of equal score come out in the reverse of their insertion order
RECURSIVE SortedByScore_reversed(_, _)
SortedByScore_reversed(entries, idx) ==
    IF idx = {} THEN <<>>
    ELSE LET first == CHOOSE i \in idx : \A j \in idx \ {i} :
                        \/ FracLess(entries[j].rrf_score, entries[i].rrf_score)
                        \/ /\ FracEq(entries[j].rrf_score, entries[i].rrf_score)
                           /\ j < i
         IN  <<entries[first]>> \o SortedByScore_reversed(entries, idx \ {first})

\* sorted(scores.items(), key=rrf_score, reverse=True) (lines 121-123): by
\* descending score, entries of equal score in insertion order
RECURSIVE SortedByScore(_, _)
SortedByScore(entries, idx) ==
    IF idx = {} THEN <<>>
    ELSE LET first == CHOOSE i \in idx : \A j \in idx \ {i} :
                        \/ FracLess(entries[j].rrf_score, entries[i].rrf_score)
                        \/ /\ FracEq(entries[j].rrf_score, entries[i].rrf_score)
                           /\ i < j
         IN  <<entries[first]>> \o SortedByScore(entries, idx \ {first})

\* the SearchResult built from one entry (lines 129-141)
FusedResult(e) ==
    [chunk_id |-> e.result.chunk_id,
     post_id |-> e.result.post_id,
     content |-> e.result.content,
     score |-> e.rrf_score,
     bm25_score |-> e.bm25_score,
     semantic_score |-> e.semantic_score,
     title |-> e.result.title,
     category |-> e.result.category]

_reciprocal_rank_fusion(alpha, bm25_results, semantic_results, limit) ==
    LET entries == ScoreEntries(alpha, bm25_results, semantic_results)
        sorted_items == Slice(SortedByScore(entries, 1..Len(entries)), limit)
    IN  [i \in 1..Len(sorted_items) |-> FusedResult(sorted_items[i])]

\* what HybridSearch.search returns on a connected store (lines 45-67)
HybridSelect(alpha, query, limit) ==
    LET fetch_limit == limit * 3
        bm25_results == FtsSelect(query, fetch_limit)
        semantic_results ==
            IF vec_enabled
            THEN VectorSelect(embed_single(query), fetch_limit)
            ELSE <<>>
    IN  IF Len(semantic_results) = 0 THEN Slice(bm25_results, limit)
        ELSE IF Len(bm25_results) = 0 THEN Slice(semantic_results, limit)
        ELSE _reciprocal_rank_fusion(alpha, bm25_results, semantic_results,
                                     limit)

\* HybridSearch.search: the first store call, fts_search, raises when there is
\* no connection
search(alpha, query, limit) ==
    FtsCall("search", [alpha |-> alpha, query |-> query, limit |-> limit],
            query, [results |-> HybridSelect(alpha, query, limit)])

search_bm25_only(query, limit) ==
    FtsCall("search_bm25_only", [query |-> query, limit |-> limit], query,
            [results |-> FtsSelect(query, limit)])

search_semantic_only(query, limit) ==
    LET arg == [query |-> query, limit |-> limit]
    IN  \/ /\ ~vec_enabled
           /\ last' = [op |-> "search_semantic_only", ok |-> FALSE,
                       arg |-> arg,
                       ret |-> [error |-> "Vector search is not available"]]
           /\ UNCHANGED <<conn, vec_available, vec_enabled, dbVars>>
        \/ /\ vec_enabled
           /\ ReadCall("search_semantic_only", arg,
                       [results |-> VectorSelect(embed_single(query), limit)])

\* mutant of Seen: no document counts as seen
Seen_never(post_id, seen_posts) == FALSE

\* "if result.post_id in seen_posts" (line 47)
Seen(post_id, seen_posts) == post_id \in seen_posts

\* the loop of RAG.query (lines 46-64) over the results not yet visited
RECURSIVE QueryLoop(_, _, _)
QueryLoop(results, seen_posts, output) ==
    IF Len(results) = 0 THEN output
    ELSE LET result == results[1]
             rest == SubSeq(results, 2, Len(results))
             post == get_post(result.post_id)
         IN  IF Seen(result.post_id, seen_posts)
             THEN QueryLoop(rest, seen_posts, output)
             ELSE QueryLoop(rest, seen_posts \cup {result.post_id},
                            IF post # NoRow
                            THEN Append(output,
                                    [post |-> post,
                                     matched_chunk |-> result.content,
                                     score |-> result.score,
                                     bm25_score |-> result.bm25_score,
                                     semantic_score |-> result.semantic_score])
                            ELSE output)

\* RAG.query on a RAG built with the given alpha
QuerySelect(alpha, text, limit) ==
    QueryLoop(HybridSelect(alpha, text, limit), {}, <<>>)

query(alpha, text, limit) ==
    FtsCall("query", [alpha |-> alpha, query |-> text, limit |-> limit],
            text, [results |-> QuerySelect(alpha, text, limit)])

\* RAG.get_context: the parts joined by "\n---\n", each the position, the
\* title, "category or 'N/A'" and the content of one post
ContextPart(i, post) ==
    [i |-> i, title |-> post.title,
     category |-> IF post.category \in {None, ""} THEN "N/A"
                  ELSE post.category,
     content |-> post.content]

ContextString(results) ==
    IF Len(results) = 0 THEN <<"No relevant context found.">>
    ELSE [i \in 1..Len(results) |-> ContextPart(i, results[i].post)]

get_context(alpha, text, limit) ==
    FtsCall("get_context", [alpha |-> alpha, query |-> text, limit |-> limit],
            text, [context |-> ContextString(QuerySelect(alpha, text, limit))])

\* "[r for r in results if r.post_id != post_id][:limit]" (line 112) over
\* search(post.content, limit + 1) (line 109)
SimilarSelect(alpha, post_id, limit) ==
    LET post == get_post(post_id)
        results == HybridSelect(alpha, post.content, limit + 1)
        IsOther(r) == r.post_id # post_id
    IN  Slice(SelectSeq(results, IsOther), limit)

\* RAG.find_similar on a RAG built with the given alpha: get_post raises
\* when there is no connection, a post that is not stored gives the empty
\* list (lines 104-106), and the search is made with the post's content
find_similar(alpha, post_id, limit) ==
    LET arg == [alpha |-> alpha, post_id |-> post_id, limit |-> limit]
    IN  IF conn /\ get_post(post_id) = NoRow
        THEN ReadCall("find_similar", arg, [results |-> <<>>])
        ELSE FtsCall("find_similar", arg,
                     IF conn THEN get_post(post_id).content ELSE <<>>,
                     [results |-> SimilarSelect(alpha, post_id, limit)])

-----------------------------------------------------------------------------
(* One search call on a store that syncs have filled *)

MaxSearchChunks == 3

\* the texts of the stored chunks
SearchTexts == {<<"a", ".">>, <<"a", "a", SP, "a">>, <<"a", SP, "a">>}

\* the owners of the chunks 1..MaxSearchChunks: a sync inserts the chunks of
\* one document one after the other, so a document's chunks are neighbours;
\* d1 is the document synced first, the two documents being alike
Owners ==
    {f \in [1..MaxSearchChunks -> DocIds] :
        /\ f[1] = "d1"
        /\ \A i, j, k \in 1..MaxSearchChunks :
            (i < j /\ j < k /\ f[i] = f[k]) => f[j] = f[i]}

\* the store after syncs: both documents stored, MaxSearchChunks chunks, the
\* FTS entries the insert trigger made, and, with a vector index, the
\* embeddings of the documents whose sync reached store_embedding
SearchInit ==
    /\ ChunkIdle
    /\ ProcIdle
    /\ vec_available \in BOOLEAN
    /\ vec_enabled = vec_available
    /\ conn = TRUE
    /\ posts = [d \in DocIds |-> RowOfPost(Doc(d, "A"))]
    /\ \E owner \in Owners, text \in [1..MaxSearchChunks -> SearchTexts],
          embedded \in SUBSET DocIds :
        /\ chunk_rows =
            {[id |-> i, post_id |-> owner[i],
              chunk_index |->
                Cardinality({j \in 1..(i - 1) : owner[j] = owner[i]}),
              content |-> text[i]] : i \in 1..MaxSearchChunks}
        /\ chunks_fts =
            {[rowid |-> i, content |-> text[i]] : i \in 1..MaxSearchChunks}
        /\ embeddings =
            IF vec_available
            THEN {[chunk_id |-> i, embedding |-> embed(text[i])] :
                    i \in {x \in 1..MaxSearchChunks : owner[x] \in embedded}}
            ELSE {}
    /\ seq = MaxSearchChunks
    /\ last = [op |-> "connect", ok |-> TRUE, arg |-> NoArg, ret |-> NoArg]

\* a run makes one call
NoCallYet == last.op = "connect"

Search ==
    /\ NoCallYet
    /\ \E a \in Alphas, q \in Queries, limit \in Limits : search(a, q, limit)
    /\ UNCHANGED envVars

SearchBm25Only ==
    /\ NoCallYet
    /\ \E q \in Queries, limit \in Limits : search_bm25_only(q, limit)
    /\ UNCHANGED envVars

SearchSemanticOnly ==
    /\ NoCallYet
    /\ \E q \in Queries, limit \in Limits : search_semantic_only(q, limit)
    /\ UNCHANGED envVars

Query ==
    /\ NoCallYet
    /\ \E a \in Alphas, q \in Queries, limit \in Limits : query(a, q, limit)
    /\ UNCHANGED envVars

SearchNext ==
    \/ Search
    \/ SearchBm25Only
    \/ SearchSemanticOnly
    \/ Query

SpecSearch == SearchInit /\ [][SearchNext]_vars

-----------------------------------------------------------------------------
(* Search claims (checked under SpecSearch) *)

\* the two lists HybridSearch.search fetches for a query and a limit
LexicalList(q, limit) == FtsSelect(q, 3 * limit)
VectorList(q, limit) ==
    IF vec_enabled THEN VectorSelect(embed_single(q), 3 * limit) ELSE <<>>

\* the chunk ids of a result list, in order and as a set
Ids(results) == [i \in 1..Len(results) |-> results[i].chunk_id]
IdSet(results) == {results[i].chunk_id : i \in 1..Len(results)}

\* C14: a fusion search whose vector list is empty returns what
\* fts_search(q, limit) returns, the first limit lexical results in lexical
\* order with their scores; one whose lexical list is empty and whose vector
\* list is not returns the first limit results of the vector list unchanged.
C14_FallbackToOneList ==
    (last.op = "search" /\ last.ok) =>
        LET limit == last.arg.limit
            lex == LexicalList(last.arg.query, limit)
            vec == VectorList(last.arg.query, limit)
            res == last.ret.results
        IN  /\ Len(vec) = 0 =>
                /\ res = FtsSelect(last.arg.query, limit)
                /\ \A i \in 1..Len(res) : res[i] = lex[i]
            /\ (Len(lex) = 0 /\ Len(vec) > 0) =>
                /\ Len(res) <= limit
                /\ Len(res) = limit \/ Len(res) = Len(vec)
                /\ \A i \in 1..Len(res) : res[i] = vec[i]

\* a search on a store with a vector index found more lexical results than
\* the limit and no semantic one, and returned the best lexical results
C14_Witness ==
    /\ last.op = "search"
    /\ last.ok
    /\ vec_enabled
    /\ Len(VectorList(last.arg.query, last.arg.limit)) = 0
    /\ Len(LexicalList(last.arg.query, last.arg.limit)) > last.arg.limit
    /\ Len(last.ret.results) = last.arg.limit

\* (1 - alpha) / (k + r_lex) + alpha / (k + r_vec) for alpha = a / AlphaDen
\* and the ranks of the chunk in the two lists, a term being left out when
\* the chunk is not in that list
FusedScore(a, lex, vec, chunk_id) ==
    LET r_lex == RankIn(lex, chunk_id)
        r_vec == RankIn(vec, chunk_id)
        s_lex == [n |-> AlphaDen - a, d |-> AlphaDen * (rrf_k + r_lex)]
        s_vec == [n |-> a, d |-> AlphaDen * (rrf_k + r_vec)]
    IN  IF r_lex > 0 /\ r_vec > 0
        THEN [n |-> s_lex.n * s_vec.d + s_vec.n * s_lex.d,
              d |-> s_lex.d * s_vec.d]
        ELSE IF r_lex > 0 THEN s_lex ELSE s_vec

\* a search call that fused two non-empty lists has returned
Fused ==
    /\ last.op = "search"
    /\ last.ok
    /\ Len(LexicalList(last.arg.query, last.arg.limit)) > 0
    /\ Len(VectorList(last.arg.query, last.arg.limit)) > 0

\* C15: a fusion search with both lists non-empty returns at most limit
\* results, of pairwise distinct chunks taken from the two lists, each with
\* the score (1-alpha)/(k+r_lex) + alpha/(k+r_vec), in non-increasing order
\* of score; it returns limit results when there are that many candidates,
\* and no candidate left out scores higher than a returned one.
C15_FusedRanking ==
    Fused =>
        LET a == last.arg.alpha
            limit == last.arg.limit
            lex == LexicalList(last.arg.query, limit)
            vec == VectorList(last.arg.query, limit)
            candidates == IdSet(lex) \cup IdSet(vec)
            res == last.ret.results
        IN  /\ Len(res) <= limit
            /\ Len(res) = limit \/ IdSet(res) = candidates
            /\ IdSet(res) \subseteq candidates
            /\ \A i, j \in 1..Len(res) :
                i # j => res[i].chunk_id # res[j].chunk_id
            /\ \A i \in 1..Len(res) :
                FracEq(res[i].score, FusedScore(a, lex, vec, res[i].chunk_id))
            /\ \A i, j \in 1..Len(res) :
                i < j => ~FracLess(res[i].score, res[j].score)
            /\ \A c \in candidates \ IdSet(res) : \A i \in 1..Len(res) :
                ~FracLess(res[i].score, FusedScore(a, lex, vec, c))

\* a search with alpha strictly between 0 and 1 fused two lists: more
\* candidates than the limit, a returned chunk found by both searches, and a
\* first result that is not the first lexical result
C15_Witness ==
    /\ Fused
    /\ last.arg.alpha \in 1..(AlphaDen - 1)
    /\ LET lex == LexicalList(last.arg.query, last.arg.limit)
           vec == VectorList(last.arg.query, last.arg.limit)
       IN  /\ Cardinality(IdSet(lex) \cup IdSet(vec)) > last.arg.limit
           /\ IdSet(last.ret.results) \cap IdSet(lex) \cap IdSet(vec) # {}
           /\ last.ret.results[1].chunk_id # lex[1].chunk_id

\* the ranks a chunk can have in a fetched list besides the first, 0 for a
\* chunk the list does not hold
OtherRanks == {0} \cup 2..(3 * MaxLimit)

\* a search with alpha strictly between 0 and 1 has found one chunk first in
\* both lists
FirstInBoth ==
    /\ Fused
    /\ last.arg.alpha \in 1..(AlphaDen - 1)
    /\ LexicalList(last.arg.query, last.arg.limit)[1].chunk_id
            = VectorList(last.arg.query, last.arg.limit)[1].chunk_id

C17_AlphaExtremesAreOneList ==
    Fused =>
        /\ last.arg.alpha = 0 =>
            Ids(last.ret.results)
                = Ids(FtsSelect(last.arg.query, last.arg.limit))
        /\ last.arg.alpha = AlphaDen =>
            Ids(last.ret.results)
                = Ids(Slice(VectorList(last.arg.query, last.arg.limit),
                            last.arg.limit))

\* C18: search_bm25_only returns what fts_search returns for the same query
\* and limit, and search_semantic_only on a connected store returns without
\* error what vector_search returns for the query's embedding, the empty
\* sequence when the store has no vector index.
C18_SingleModeIsPrimitive ==
    /\ (last.op = "search_bm25_only" /\ conn) =>
        /\ last.ok
        /\ last.ret.results = FtsSelect(last.arg.query, last.arg.limit)
    /\ (last.op = "search_semantic_only" /\ conn) =>
        /\ last.ok
        /\ last.ret.results
            = VectorSelect(embed_single(last.arg.query), last.arg.limit)

\* the position in a result list of the first chunk of a document
FirstOf(results, post_id) ==
    CHOOSE i \in 1..Len(results) :
        /\ results[i].post_id = post_id
        /\ \A j \in 1..(i - 1) : results[j].post_id # post_id

\* C19: query returns at most limit entries, of pairwise distinct documents
\* that own a chunk of the fused results, in the order in which the
\* documents first occur in the fused results; the chunk and the scores
\* reported for a document are those of its first fused result.
C19_QueryOneEntryPerDocument ==
    (last.op = "query" /\ last.ok) =>
        LET fused == HybridSelect(last.arg.alpha, last.arg.query,
                                  last.arg.limit)
            out == last.ret.results
        IN  /\ Len(out) <= last.arg.limit
            /\ \A i, j \in 1..Len(out) : i # j => out[i].post.id # out[j].post.id
            /\ \A i \in 1..Len(out) :
                /\ \E k \in 1..Len(fused) : fused[k].post_id = out[i].post.id
                /\ out[i].post = get_post(out[i].post.id)
                /\ out[i].matched_chunk
                    = fused[FirstOf(fused, out[i].post.id)].content
                /\ out[i].score = fused[FirstOf(fused, out[i].post.id)].score
            /\ \A i, j \in 1..Len(out) :
                i < j => FirstOf(fused, out[i].post.id)
                            < FirstOf(fused, out[j].post.id)

\* a query whose fused results held two different chunks of one document
\* returned that document once, with the first of the two chunks
C19_Witness ==
    /\ last.op = "query"
    /\ last.ok
    /\ Len(last.ret.results) = 1
    /\ LET fused == HybridSelect(last.arg.alpha, last.arg.query,
                                 last.arg.limit)
       IN  /\ Len(fused) = 2
           /\ fused[1].post_id = fused[2].post_id
           /\ fused[1].content # fused[2].content
           /\ last.ret.results[1].matched_chunk = fused[1].content

\* the documents that own a fusion candidate
CandidateDocs(q, limit) ==
    {r.post_id : r \in {c \in chunk_rows :
        c.id \in IdSet(LexicalList(q, limit)) \cup IdSet(VectorList(q, limit))}}

\* C20: a query for which the fusion candidates hold chunks of at least
\* limit distinct stored documents returns exactly limit documents.
C20_QueryFillsLimit ==
    (last.op = "query" /\ last.ok
        /\ Cardinality(CandidateDocs(last.arg.query, last.arg.limit))
                >= last.arg.limit) =>
        Len(last.ret.results) = last.arg.limit

\* C26: results of equal fused score come in a fixed order: those from the
\* lexical list in lexical-rank order, before those found only by the vector
\* search, which come in vector-rank order.
C26_TiesKeepListOrder ==
    (last.op = "search" /\ last.ok) =>
        LET lex == LexicalList(last.arg.query, last.arg.limit)
            vec == VectorList(last.arg.query, last.arg.limit)
            res == last.ret.results
        IN  \A i, j \in 1..Len(res) :
                (i < j /\ FracEq(res[i].score, res[j].score)) =>
                    LET li == RankIn(lex, res[i].chunk_id)
                        lj == RankIn(lex, res[j].chunk_id)
                        vi == RankIn(vec, res[i].chunk_id)
                        vj == RankIn(vec, res[j].chunk_id)
                    IN  /\ lj > 0 => (li > 0 /\ li < lj)
                        /\ (li = 0 /\ lj = 0) => vi < vj

\* with alpha = 0.5 a chunk found only lexically, at rank 1, and a chunk
\* found only by the vector search, at rank 1, have the same fused score and
\* the lexical one comes first
C26_Witness ==
    /\ last.op = "search"
    /\ last.ok
    /\ 2 * last.arg.alpha = AlphaDen
    /\ Len(last.ret.results) = 2
    /\ LET lex == LexicalList(last.arg.query, last.arg.limit)
           vec == VectorList(last.arg.query, last.arg.limit)
           res == last.ret.results
       IN  /\ FracEq(res[1].score, res[2].score)
           /\ RankIn(lex, res[1].chunk_id) = 1
           /\ RankIn(vec, res[1].chunk_id) = 0
           /\ RankIn(lex, res[2].chunk_id) = 0
           /\ RankIn(vec, res[2].chunk_id) = 1

-----------------------------------------------------------------------------
(* The retrieval calls, in any order, on a store that syncs have filled *)

\* a body of two paragraphs of words, which the chunker splits in two, and
\* the bodies of the second document: one sentence, one word
BodyWords == <<"a", SP, "a", NL, NL, "a", SP, "a">>
ReadBodies == {BodyShort, <<"a">>}

\* the queries handed to the searches: words, and a sentence
ReadQueries == Queries \cup {BodyShort}

\* the documents a sync run has synced without error, in the run's order
SyncOrders == {<<"d1">>, <<"d1", "d2">>, <<"d2", "d1">>}

\* the chunk rows lines 80-89 insert for a post when the ids from first on
\* are free, and the rows of a run over a fresh store
RowsOf(post, first) ==
    {[id |-> first + i - 1, post_id |-> post.id, chunk_index |-> i - 1,
      content |-> SyncChunks(post)[i]] : i \in 1..Len(SyncChunks(post))}

RECURSIVE SyncedRows(_, _)
SyncedRows(order, first) ==
    IF order = <<>> THEN {}
    ELSE LET post == _page_to_post(Head(order))
         IN  RowsOf(post, first) \cup
                SyncedRows(Tail(order), first + Len(SyncChunks(post)))

ReadInit ==
    /\ ChunkIdle
    /\ \E body \in ReadBodies :
        notion = [d \in DocIds |->
                    [status |-> "Draft", mastodon_url |-> None,
                     content |-> IF d = "d1" THEN BodyWords ELSE body]]
    /\ sync = IdleSync
    /\ watch = IdleWatch
    /\ published = [d \in DocIds |-> 0]
    /\ vec_available \in BOOLEAN
    /\ vec_enabled = vec_available
    /\ conn = TRUE
    /\ \E order \in SyncOrders :
        /\ posts = [d \in DocIds |->
                        IF \E i \in 1..Len(order) : order[i] = d
                        THEN RowOfPost(_page_to_post(d)) ELSE NoRow]
        /\ chunk_rows = SyncedRows(order, 1)
    /\ chunks_fts = {[rowid |-> r.id, content |-> r.content] : r \in chunk_rows}
    /\ embeddings =
        IF vec_available
        THEN {[chunk_id |-> r.id, embedding |-> embed(r.content)] :
                r \in chunk_rows}
        ELSE {}
    /\ seq = Cardinality(chunk_rows)
    /\ last = [op |-> "connect", ok |-> TRUE, arg |-> NoArg, ret |-> NoArg]

ReadFtsSearch ==
    (\E q \in ReadQueries, limit \in Limits : fts_search(q, limit))
        /\ UNCHANGED envVars

ReadSearch ==
    (\E a \in Alphas, q \in ReadQueries, limit \in Limits :
        search(a, q, limit))
        /\ UNCHANGED envVars

ReadSearchBm25Only ==
    (\E q \in ReadQueries, limit \in Limits : search_bm25_only(q, limit))
        /\ UNCHANGED envVars

ReadSearchSemanticOnly ==
    (\E q \in ReadQueries, limit \in Limits : search_semantic_only(q, limit))
        /\ UNCHANGED envVars

ReadQuery ==
    (\E a \in Alphas, q \in ReadQueries, limit \in Limits :
        query(a, q, limit))
        /\ UNCHANGED envVars

GetContext ==
    (\E a \in Alphas, q \in ReadQueries, limit \in Limits :
        get_context(a, q, limit))
        /\ UNCHANGED envVars

FindSimilar ==
    (\E a \in Alphas, d \in DocIds, limit \in Limits :
        find_similar(a, d, limit))
        /\ UNCHANGED envVars

ReadNext ==
    \/ ReadFtsSearch
    \/ VectorSearch
    \/ ReadSearch
    \/ ReadSearchBm25Only
    \/ ReadSearchSemanticOnly
    \/ ReadQuery
    \/ GetContext
    \/ FindSimilar
    \/ GetPost
    \/ IsPosted
    \/ GetPostByStatus
    \/ GetAllPosts

SpecRead == ReadInit /\ [][ReadNext]_vars

-----------------------------------------------------------------------------
(* Retrieval claims (checked under SpecRead) *)

\* the whole fused ranking of a query: a search whose limit is the number of
\* stored chunks cuts nothing off
FusedAll(alpha, text) == HybridSelect(alpha, text, Cardinality(chunk_rows))

\* the results of a ranking that are chunks of other documents
OthersOf(results, post_id) ==
    LET IsOther(r) == r.post_id # post_id
    IN  SelectSeq(results, IsOther)

\* C21: find_similar(d, limit) returns the fused ranking for the body of d
\* with the results owned by d removed and then cut to limit: it holds no
\* chunk of d, has at most limit results, has fewer only when fewer than limit
\* fused candidates belong to other documents, and is empty when d is not
\* stored.
C21_FindSimilarFiltersThenCuts ==
    (last.op = "find_similar" /\ conn) =>
        LET d == last.arg.post_id
            limit == last.arg.limit
        IN  /\ last.ok
            /\ posts[d] = NoRow => last.ret.results = <<>>
            /\ posts[d] # NoRow =>
                LET others == OthersOf(FusedAll(last.arg.alpha,
                                                posts[d].content), d)
                    results == last.ret.results
                IN  /\ results = Slice(others, limit)
                    /\ \A i \in 1..Len(results) : results[i].post_id # d
                    /\ Len(results) <= limit
                    /\ Len(results) < limit => Len(others) < limit

\* the search and retrieval calls
ReadOps ==
    {"fts_search", "vector_search", "search", "search_bm25_only",
     "search_semantic_only", "query", "get_context", "find_similar",
     "is_posted", "get_post", "get_post_by_status", "get_all_posts"}

\* a search or retrieval call, whether it returns or raises, leaves the
\* documents, the chunks, the FTS index, the embeddings and vec_enabled alone
ReadsChangeNothing ==
    last'.op \in ReadOps =>
        UNCHANGED <<posts, chunk_rows, chunks_fts, embeddings, seq,
                    vec_enabled, conn>>

\* the result of the last search is the result the same call gives now
SearchRepeats ==
    (last.op = "search" /\ last.ok) =>
        last.ret.results =
            HybridSelect(last.arg.alpha, last.arg.query, last.arg.limit)

\* C25: the search and retrieval calls never change the documents, the
\* chunks, the FTS index, the embeddings or vec_enabled; so search(q, k) made
\* again, after any number of such calls, returns the same ordered results.
C25_ReadsAreReadOnly ==
    /\ [][ReadsChangeNothing]_vars
    /\ []SearchRepeats
    /\ [][(last.op = "search" /\ last'.op = "search"
            /\ last'.arg = last.arg) => last'.ret = last.ret]_vars

\* a fused search over both indexes has returned several chunks
C25_Witness ==
    /\ last.op = "search"
    /\ last.ok
    /\ embeddings # {}
    /\ Len(last.ret.results) >= 2
    /\ \E i \in 1..Len(last.ret.results) :
        LET id == last.ret.results[i].chunk_id
        IN  /\ RankIn(LexicalList(last.arg.query, last.arg.limit), id) > 0
            /\ RankIn(VectorList(last.arg.query, last.arg.limit), id) > 0

-----------------------------------------------------------------------------
(* Two sync processes on one database file, each syncing one post, their  *)
(* store calls interleaved                                                  *)

Procs == {"A", "B"}

\* the two processes sync different posts
TargetOf(p) == IF p = "A" THEN "d1" ELSE "d2"

\* the posts of an earlier run, which synced both pages with these bodies
OldPost(page_id) ==
    [_page_to_post(page_id) EXCEPT
        !.content = IF page_id = "d1" THEN BodyLong ELSE BodyShort]

\* what a process holds once it has fetched the one post it syncs
FetchedOne(page_id) ==
    [IdleSync EXCEPT !.posts = <<_page_to_post(page_id)>>, !.total = 1,
                     !.pc = "upsert"]

\* the store is empty or as the earlier run left it; the owner has given the
\* pages their bodies; each process has fetched its post
TwoInit ==
    /\ ChunkIdle
    /\ \E body1 \in BodiesOf("d1"), body2 \in BodiesOf("d2") :
        notion = [d \in DocIds |->
                    [status |-> "Draft", mastodon_url |-> None,
                     content |-> IF d = "d1" THEN body1 ELSE body2]]
    /\ watch = IdleWatch
    /\ published = [d \in DocIds |-> 0]
    /\ sync = [p \in Procs |-> FetchedOne(TargetOf(p))]
    /\ vec_available \in BOOLEAN
    /\ vec_enabled = vec_available
    /\ conn = TRUE
    /\ \/ /\ posts = [d \in DocIds |-> NoRow]
          /\ chunk_rows = {}
       \/ /\ posts = [d \in DocIds |-> RowOfPost(OldPost(d))]
          /\ chunk_rows =
                RowsOf(OldPost("d1"), 1) \cup
                RowsOf(OldPost("d2"), 1 + Len(SyncChunks(OldPost("d1"))))
    /\ chunks_fts = {[rowid |-> r.id, content |-> r.content] : r \in chunk_rows}
    /\ embeddings =
        IF vec_available
        THEN {[chunk_id |-> r.id, embedding |-> embed(r.content)] :
                r \in chunk_rows}
        ELSE {}
    /\ seq = Cardinality(chunk_rows)
    /\ last = [op |-> "connect", ok |-> TRUE, arg |-> NoArg, ret |-> NoArg]

\* line 64, made by one of the processes
TwoUpsert ==
    /\ \E p \in Procs :
        /\ sync[p].pc = "upsert"
        /\ upsert_post(Head(sync[p].posts))
        /\ sync' = [sync EXCEPT ![p] =
                        IF last'.ok THEN [@ EXCEPT !.pc = "delete"]
                        ELSE Raised(@)]
    /\ UNCHANGED <<chunkVars, notion, watch, published>>

\* lines 67-78
TwoDelete ==
    /\ \E p \in Procs :
        /\ sync[p].pc = "delete"
        /\ SyncDeleteCall(Head(sync[p].posts).id)
        /\ sync' = [sync EXCEPT ![p] =
                        IF last'.ok
                        THEN [@ EXCEPT !.pc = "insert", !.i = 0,
                                       !.chunks = SyncChunks(Head(sync[p].posts))]
                        ELSE Raised(@)]
    /\ UNCHANGED <<chunkVars, notion, watch, published>>

\* one round of the loop of lines 80-89
TwoInsert ==
    /\ \E p \in Procs :
        /\ sync[p].pc = "insert"
        /\ insert_chunk([post_id |-> Head(sync[p].posts).id,
                         chunk_index |-> sync[p].i,
                         content |-> sync[p].chunks[sync[p].i + 1]])
        /\ sync' = [sync EXCEPT ![p] =
                        IF ~last'.ok THEN Raised(@)
                        ELSE [@ EXCEPT
                                !.i = @ + 1,
                                !.chunk_ids = Append(@, last'.ret.id),
                                !.pc = IF sync[p].i + 1 = Len(sync[p].chunks)
                                       THEN "embed" ELSE "insert"]]
    /\ UNCHANGED <<chunkVars, notion, watch, published>>

\* line 93
TwoEmbed ==
    /\ \E p \in Procs :
        /\ sync[p].pc = "embed"
        /\ sync' = [sync EXCEPT ![p] = [@ EXCEPT !.pc = "store", !.i = 0]]
    /\ UNCHANGED <<chunkVars, storeVars, notion, watch, published>>

\* one round of the loop of lines 95-97, and line 99 after the last round
TwoStore ==
    /\ \E p \in Procs :
        /\ sync[p].pc = "store"
        /\ store_embedding(sync[p].chunk_ids[sync[p].i + 1],
                           embed(sync[p].chunks[sync[p].i + 1]))
        /\ sync' = [sync EXCEPT ![p] =
                        IF ~last'.ok THEN Raised(@)
                        ELSE IF sync[p].i + 1 = Len(sync[p].chunk_ids)
                        THEN Synced(@)
                        ELSE [@ EXCEPT !.i = @ + 1]]
    /\ UNCHANGED <<chunkVars, notion, watch, published>>

TwoNext ==
    \/ TwoUpsert
    \/ TwoDelete
    \/ TwoInsert
    \/ TwoEmbed
    \/ TwoStore

SpecTwoSyncs == TwoInit /\ [][TwoNext]_vars

\* both processes have synced their post
BothSynced == \A p \in Procs : sync[p].pc = "return" /\ sync[p].synced = 1

\* the post is stored as one sync of it, run alone, leaves it, whatever ids
\* its chunks were given: the row of the fetched post, one chunk row per chunk
\* of its body, in order, and for every chunk row its FTS entry and, with a
\* vector index, its embedding
AsSyncedAlone(d) ==
    LET post == _page_to_post(d)
        expected == SyncChunks(post)
    IN  /\ posts[d] = RowOfPost(post)
        /\ Cardinality(ChunksOf(d)) = Len(expected)
        /\ \A r \in ChunksOf(d) :
            /\ r.chunk_index \in 0..(Len(expected) - 1)
            /\ r.content = expected[r.chunk_index + 1]
            /\ [rowid |-> r.id, content |-> r.content] \in chunks_fts
            /\ vec_enabled =>
                [chunk_id |-> r.id, embedding |-> embed(r.content)]
                    \in embeddings

\* no FTS entry and no embedding but those of the chunk rows
NothingStray ==
    /\ Cardinality(chunks_fts) = Cardinality(chunk_rows)
    /\ \A f \in chunks_fts : \E r \in chunk_rows : r.id = f.rowid
    /\ Cardinality(embeddings) =
        IF vec_enabled THEN Cardinality(chunk_rows) ELSE 0
    /\ \A e \in embeddings : \E r \in chunk_rows : r.id = e.chunk_id

\* C30: when the store calls of two syncs of different posts interleave in
\* any order, each of the two posts ends with the row, the chunks, the FTS
\* entries and the embeddings it has when the two syncs run one after the
\* other (the chunk ids apart, which depend on the order of the inserts).
C30_DisjointSyncsCommute ==
    BothSynced => NothingStray /\ \A p \in Procs : AsSyncedAlone(TargetOf(p))

\* the inserts of the two syncs alternated, as in no run of one sync after
\* the other, over the chunks an earlier run had stored
C30_Witness ==
    /\ BothSynced
    /\ vec_enabled
    /\ ChunkIdsOf("d1") = {4, 6}
    /\ ChunkIdsOf("d2") = {5}

=============================================================================
